---------------------------- MODULE Spec2Model ----------------------------
(***************************************************************************)
(* A model of the simulation core of ld53: the entity/component store      *)
(* (ecs.hpp), the scene graph built on it (scene_graph.hpp/.cpp), and the  *)
(* physics world (physics_world.hpp/.cpp): collideBoxes and update.        *)
(*                                                                         *)
(* C++ vectors are modelled as sequences.  The code indexes from 0 and     *)
(* stores 0-based slots in packedIndices, and so does the model: At and    *)
(* SetAt translate a 0-based index to the 1-based sequence.                *)
(*                                                                         *)
(* Several specifications share the variables; each one moves the part of  *)
(* the state its operations touch and leaves the rest as constructed.      *)
(***************************************************************************)
EXTENDS Integers, Sequences, FiniteSets, TLC

VARIABLES
    cm,          \* a ComponentManager<T> on its own: components, componentIndices, packedIndices
    cmLast,      \* history: per identifier, the last call applied to it ("none", "create", "destroy")
    cmMisuse,    \* history: some call so far broke the caller contract (create on a present
                 \* index, destroy on an absent one)
    freeIndices, \* EntityManager::freeIndices
    nextIndex,   \* EntityManager::nextIndex
    sceneGraph,  \* the SceneGraph, a ComponentManager<SceneGraphNode>; registered first
    colliders,   \* a ComponentManager<Collider>; registered after the scene graph
    crashed,     \* the process was aborted
    returned,    \* history: the identifiers EntityManager::create has returned
    live,        \* history: the identifiers returned by create and not destroyed since
    call,        \* history: the last call that reached the entity manager, <<name, identifier
                 \* returned or passed, the identifiers passed to EntityManager::destroy in order>>
    misuse,      \* history: some call so far broke a caller contract of the entity manager
                 \* or the scene graph
    sets,        \* the number of setter calls (setParent and the four transform setters)
                 \* made on the scene graph so far, where a specification bounds them
    dynamics,    \* a ComponentManager<Dynamic>
    collisionRecords, \* PhysicsWorld::collisionRecords
    sortIndices, \* PhysicsWorld::sortIndices
    intervals,   \* PhysicsWorld::intervals
    trace,       \* history: what the last PhysicsWorld::update did, in order
    updates,     \* the number of calls of PhysicsWorld::update so far
    boxes,       \* history: the last call of collideBoxes made on its own, its arguments and
                 \* its result
    game         \* the stores of TheGame its collision callbacks and updateHealth work on,
                 \* with the history of what they saw

storeVars == <<cm, cmLast, cmMisuse>>
worldVars == <<freeIndices, nextIndex, sceneGraph, colliders, crashed, returned, live, call, misuse, sets>>
physicsVars == <<dynamics, collisionRecords, sortIndices, intervals, trace, updates, boxes, game>>
vars == <<cm, cmLast, cmMisuse,
          freeIndices, nextIndex, sceneGraph, colliders, crashed, returned, live, call, misuse, sets,
          dynamics, collisionRecords, sortIndices, intervals, trace, updates, boxes, game>>

---------------------------------------------------------------------------
(* Bounds of the model *)

\* identifiers range over 0..MaxEntity
MaxEntity == 2
\* the dense arrays hold at most MaxDense elements (only repeated create can exceed MaxEntity + 1)
MaxDense == 3
\* the values written into a plain component are 0..MaxValue
MaxValue == 1

\* the entity manager hands out the identifiers 1..MaxId; 0 is the root of the scene graph
MaxId == 2
\* the free list holds at most MaxFree identifiers (only a repeated destroy can exceed MaxId)
MaxFree == 4
\* the callers make at most MaxSets setter calls (setParent, setPosition, setRotation,
\* setDepth, setHeightForDepth) on the scene graph where their transforms are read
MaxSets == 2
\* the game makes at most MaxPushes calls of updateVelocity
MaxPushes == 1
\* the physics world holds at most MaxBodies entities where update detects, and at most
\* MaxMoving where it resolves
MaxBodies == 3
MaxMoving == 3
\* update is called at most MaxUpdates times where it detects, and at most MaxSteps times
\* where it resolves
MaxUpdates == 2
MaxSteps == 1

Entities == 0..MaxEntity
Ids == 0..MaxId
Values == 0..MaxValue

---------------------------------------------------------------------------
(* std::vector, 0-based *)

At(v, i) == v[i + 1]
SetAt(v, i, x) == [v EXCEPT ![i + 1] = x]
Back(v) == v[Len(v)]
PopBack(v) == SubSeq(v, 1, Len(v) - 1)
\* vector::resize(n, x) for n >= size()
Resize(v, n, x) == v \o [k \in 1..(n - Len(v)) |-> x]
Count(v, x) == Cardinality({k \in 1..Len(v) : v[k] = x})
\* the elements of a sequence
Range(v) == {v[k] : k \in 1..Len(v)}

---------------------------------------------------------------------------
(* ComponentManager<T> (ecs.hpp) *)

\* std::numeric_limits<uint32_t>::max().  The checker's integers are 32-bit signed, so the
\* sentinel is its largest integer: what the code uses of the value is that it is no slot
\* of any vector and is not below any size() - 1.
InvalidIndex == 2147483647

EmptyManager == [components |-> <<>>, componentIndices |-> <<>>, packedIndices |-> <<>>]

\* a mutant of create: the slot is read after the element was appended
ComponentManager_create_slotAfterAppend(m, index, fresh) ==
    LET grown == IF index >= Len(m.packedIndices)
                 THEN Resize(m.packedIndices, index + 1, InvalidIndex)
                 ELSE m.packedIndices
    IN  [components       |-> Append(m.components, fresh),
         componentIndices |-> Append(m.componentIndices, index),
         packedIndices    |-> SetAt(grown, index, Len(m.components) + 1)]

\* create(index); fresh is the value-initialised T that emplace_back() constructs
ComponentManager_create(m, index, fresh) ==
    LET grown == IF index >= Len(m.packedIndices)
                 THEN Resize(m.packedIndices, index + 1, InvalidIndex)
                 ELSE m.packedIndices
    IN  [components       |-> Append(m.components, fresh),
         componentIndices |-> Append(m.componentIndices, index),
         packedIndices    |-> SetAt(grown, index, Len(m.components))]

\* a mutant of destroy: the last element is moved into the slot, but the sparse entry of
\* the moved element is not redirected
ComponentManager_destroy_noRedirect(m, index) ==
    LET slot == At(m.packedIndices, index)
        swap == slot < Len(m.components) - 1
    IN  [components       |-> PopBack(IF swap THEN SetAt(m.components, slot, Back(m.components))
                                              ELSE m.components),
         componentIndices |-> PopBack(IF swap THEN SetAt(m.componentIndices, slot, Back(m.componentIndices))
                                              ELSE m.componentIndices),
         packedIndices    |-> SetAt(m.packedIndices, index, InvalidIndex)]

\* a mutant of destroy: the sparse entry of the destroyed index is not reset
ComponentManager_destroy_noInvalidate(m, index) ==
    LET slot == At(m.packedIndices, index)
        swap == slot < Len(m.components) - 1
        last == Back(m.componentIndices)
    IN  [components       |-> PopBack(IF swap THEN SetAt(m.components, slot, Back(m.components))
                                              ELSE m.components),
         componentIndices |-> PopBack(IF swap THEN SetAt(m.componentIndices, slot, last)
                                              ELSE m.componentIndices),
         packedIndices    |-> IF swap THEN SetAt(m.packedIndices, last, slot)
                                      ELSE m.packedIndices]

\* destroy(index): defined when index < packedIndices.size() and components is not empty
ComponentManager_destroy(m, index) ==
    LET slot == At(m.packedIndices, index)
        swap == slot < Len(m.components) - 1
        last == Back(m.componentIndices)
    IN  [components       |-> PopBack(IF swap THEN SetAt(m.components, slot, Back(m.components))
                                              ELSE m.components),
         componentIndices |-> PopBack(IF swap THEN SetAt(m.componentIndices, slot, last)
                                              ELSE m.componentIndices),
         packedIndices    |-> SetAt(IF swap THEN SetAt(m.packedIndices, last, slot)
                                            ELSE m.packedIndices,
                                    index, InvalidIndex)]

ComponentManager_has(m, index) ==
    index < Len(m.packedIndices) /\ At(m.packedIndices, index) # InvalidIndex

\* get(index): components[packedIndices[index]], no bounds check
ComponentManager_get(m, index) == At(m.components, At(m.packedIndices, index))

\* a write through the reference get(index) returns
ComponentManager_put(m, index, x) ==
    [m EXCEPT !.components = SetAt(m.components, At(m.packedIndices, index), x)]

ComponentManager_indices(m) == m.componentIndices

\* the calls whose behaviour C++ defines: every vector access is in range and pop_back
\* has an element to remove
destroyDefined(m, index) == index < Len(m.packedIndices) /\ Len(m.components) >= 1
getDefined(m, index) ==
    index < Len(m.packedIndices) /\ At(m.packedIndices, index) < Len(m.components)

---------------------------------------------------------------------------
(* SceneGraph (scene_graph.hpp, scene_graph.cpp) *)

\* Transform and SceneGraphNode as value-initialised by emplace_back().  Rotations are
\* counted in quarter turns, so that cos and sin are exact.
DefaultTransform == [position |-> <<0, 0>>, rotation |-> 0, depth |-> 0]
DefaultNode ==
    [local |-> DefaultTransform, world |-> DefaultTransform, heightForDepth |-> 0,
     parent |-> 0, children |-> <<>>, dirty |-> TRUE]

SceneGraph_get(sg, index) == ComponentManager_get(sg, index)

\* the search loop of removeParent: the 0-based position of the first occurrence of index
\* in children, or -1 when it does not occur (found = false)
childSlot(children, index) ==
    IF \E i \in 1..Len(children) : children[i] = index
    THEN (CHOOSE i \in 1..Len(children) :
              /\ children[i] = index
              /\ \A j \in 1..(i - 1) : children[j] # index) - 1
    ELSE -1

\* a mutant of removeParent: the child is found but not taken out of the list
removeParent_keepsChild(sg, index) == sg

\* removeParent(index): swap-remove of index from its parent's child list
removeParent(sg, index) ==
    LET parent == SceneGraph_get(sg, SceneGraph_get(sg, index).parent)
        childIndex == childSlot(parent.children, index)
        swapped == IF childIndex < Len(parent.children) - 1
                   THEN SetAt(parent.children, childIndex, Back(parent.children))
                   ELSE parent.children
    IN  IF childIndex >= 0
        THEN ComponentManager_put(sg, SceneGraph_get(sg, index).parent,
                                  [parent EXCEPT !.children = PopBack(swapped)])
        ELSE sg

\* addParent(index, parent)
addParent(sg, index, parent) ==
    LET linked == ComponentManager_put(sg, index,
                      [SceneGraph_get(sg, index) EXCEPT !.parent = parent])
    IN  ComponentManager_put(linked, parent,
            [SceneGraph_get(linked, parent) EXCEPT
                 !.children = Append(SceneGraph_get(linked, parent).children, index)])

RECURSIVE setDirty(_, _)
RECURSIVE setDirtyEach(_, _, _)

\* the loop of setDirty over node.children, from position i on
setDirtyEach(sg, children, i) ==
    IF i > Len(children) THEN sg
    ELSE setDirtyEach(setDirty(sg, children[i]), children, i + 1)

\* a mutant of setDirty: the node is marked, its children are not visited
setDirty_noChildren(sg, index) ==
    ComponentManager_put(sg, index, [SceneGraph_get(sg, index) EXCEPT !.dirty = TRUE])

\* setDirty(index)
setDirty(sg, index) ==
    LET node == SceneGraph_get(sg, index)
    IN  IF ~node.dirty
        THEN setDirtyEach(ComponentManager_put(sg, index, [node EXCEPT !.dirty = TRUE]),
                          node.children, 1)
        ELSE sg

\* create(index, parent)
SceneGraph_create(sg, index, parent) ==
    LET made == ComponentManager_create(sg, index, DefaultNode)
        node == SceneGraph_get(made, index)
        init == ComponentManager_put(made, index,
                    [node EXCEPT !.local.position = <<0, 0>>, !.local.rotation = 0,
                                 !.dirty = TRUE])
    IN  addParent(init, index, parent)

\* SceneGraph() : create(0), that is create(0, 0)
SceneGraph_new == SceneGraph_create(EmptyManager, 0, 0)

\* a mutant of destroy: the node is removed only when removeParent has found it
SceneGraph_destroy_foundOnly(sg, index) ==
    IF childSlot(SceneGraph_get(sg, SceneGraph_get(sg, index).parent).children, index) >= 0
    THEN ComponentManager_destroy(removeParent(sg, index), index)
    ELSE sg

\* destroy(index)
SceneGraph_destroy(sg, index) == ComponentManager_destroy(removeParent(sg, index), index)

\* a mutant of setParent: the node is unlinked and linked again also when parent is its
\* parent already
SceneGraph_setParent_always(sg, index, parent) ==
    setDirty(addParent(removeParent(sg, index), index, parent), index)

\* setParent(index, parent)
SceneGraph_setParent(sg, index, parent) ==
    IF SceneGraph_get(sg, index).parent # parent
    THEN setDirty(addParent(removeParent(sg, index), index, parent), index)
    ELSE sg

SceneGraph_getParent(sg, index) == SceneGraph_get(sg, index).parent

\* the nodes get() reads when destroy(index) runs are present: index and its parent
SceneGraph_destroyDefined(sg, index) ==
    /\ ComponentManager_has(sg, index) /\ getDefined(sg, index)
    /\ ComponentManager_has(sg, SceneGraph_get(sg, index).parent)
    /\ getDefined(sg, SceneGraph_get(sg, index).parent)

---------------------------------------------------------------------------
(* SceneGraph: local transforms and the cached world transform (scene_graph.cpp) *)

\* std::cos and std::sin of r quarter turns
Cos(r) == CASE r % 4 = 0 -> 1 [] r % 4 = 1 -> 0 [] r % 4 = 2 -> -1 [] OTHER -> 0
Sin(r) == CASE r % 4 = 0 -> 0 [] r % 4 = 1 -> 1 [] r % 4 = 2 -> 0 [] OTHER -> -1

\* a mutant of setPosition: the node is not marked dirty
SceneGraph_setPosition_noDirty(sg, index, position) ==
    ComponentManager_put(sg, index, [SceneGraph_get(sg, index) EXCEPT !.local.position = position])

\* setPosition(index, position)
SceneGraph_setPosition(sg, index, position) ==
    setDirty(ComponentManager_put(sg, index,
                 [SceneGraph_get(sg, index) EXCEPT !.local.position = position]), index)

\* setRotation(index, rotation)
SceneGraph_setRotation(sg, index, rotation) ==
    setDirty(ComponentManager_put(sg, index,
                 [SceneGraph_get(sg, index) EXCEPT !.local.rotation = rotation]), index)

\* setDepth(index, depth)
SceneGraph_setDepth(sg, index, depth) ==
    setDirty(ComponentManager_put(sg, index,
                 [SceneGraph_get(sg, index) EXCEPT !.local.depth = depth]), index)

\* setHeightForDepth(index, heightForDepth)
SceneGraph_setHeightForDepth(sg, index, heightForDepth) ==
    setDirty(ComponentManager_put(sg, index,
                 [SceneGraph_get(sg, index) EXCEPT !.heightForDepth = heightForDepth]), index)

SceneGraph_getLocalTransform(sg, index) == SceneGraph_get(sg, index).local

\* a mutant of composeWorld: the local position is added as it is, not rotated
composeWorld_noRotate(node, parentTransform) ==
    [position |-> <<parentTransform.position[1] + node.local.position[1],
                    parentTransform.position[2] + node.local.position[2]>>,
     rotation |-> parentTransform.rotation + node.local.rotation,
     depth    |-> IF node.parent = 0
                  THEN (parentTransform.depth + node.local.depth)
                           - (node.local.position[2] - node.heightForDepth)
                  ELSE parentTransform.depth + node.local.depth]

\* a mutant of composeWorld: the depth is adjusted by the height below any parent
composeWorld_adjustsAll(node, parentTransform) ==
    LET cosAngle == Cos(parentTransform.rotation)
        sinAngle == Sin(parentTransform.rotation)
        x == node.local.position[1]
        y == node.local.position[2]
    IN  [position |-> <<parentTransform.position[1] + (cosAngle * x - sinAngle * y),
                        parentTransform.position[2] + (sinAngle * x + cosAngle * y)>>,
         rotation |-> parentTransform.rotation + node.local.rotation,
         depth    |-> (parentTransform.depth + node.local.depth) - (y - node.heightForDepth)]

\* the world transform getWorldTransform computes for a dirty node that is not its own
\* parent, from the parent's world transform
composeWorld(node, parentTransform) ==
    LET cosAngle == Cos(parentTransform.rotation)
        sinAngle == Sin(parentTransform.rotation)
        x == node.local.position[1]
        y == node.local.position[2]
    IN  [position |-> <<parentTransform.position[1] + (cosAngle * x - sinAngle * y),
                        parentTransform.position[2] + (sinAngle * x + cosAngle * y)>>,
         rotation |-> parentTransform.rotation + node.local.rotation,
         depth    |-> IF node.parent = 0
                      THEN (parentTransform.depth + node.local.depth)
                               - (y - node.heightForDepth)
                      ELSE parentTransform.depth + node.local.depth]

RECURSIVE getWorldTransform(_, _)

\* a mutant of getWorldTransform: a recomputed node below another node keeps its dirty flag
getWorldTransform_staysDirty(sg, index) ==
    LET node == SceneGraph_get(sg, index)
    IN  IF node.dirty
        THEN IF node.parent # index
             THEN LET above == getWorldTransform(sg, node.parent)
                      parentTransform == SceneGraph_get(above, node.parent).world
                  IN  ComponentManager_put(above, index,
                          [SceneGraph_get(above, index) EXCEPT
                               !.world = composeWorld(SceneGraph_get(above, index), parentTransform)])
             ELSE ComponentManager_put(sg, index,
                      [node EXCEPT !.world = node.local, !.dirty = FALSE])
        ELSE sg

\* getWorldTransform(index): the scene graph it leaves; the transform returned is the
\* world field of the node afterwards
getWorldTransform(sg, index) ==
    LET node == SceneGraph_get(sg, index)
    IN  IF node.dirty
        THEN IF node.parent # index
             THEN LET above == getWorldTransform(sg, node.parent)
                      parentTransform == SceneGraph_get(above, node.parent).world
                  IN  ComponentManager_put(above, index,
                          [SceneGraph_get(above, index) EXCEPT
                               !.world = composeWorld(SceneGraph_get(above, index), parentTransform),
                               !.dirty = FALSE])
             ELSE ComponentManager_put(sg, index,
                      [node EXCEPT !.world = node.local, !.dirty = FALSE])
        ELSE sg

getWorldTransform_result(sg, index) == SceneGraph_get(getWorldTransform(sg, index), index).world

RECURSIVE getWorldTransform_calls(_, _)
\* the number of invocations of getWorldTransform that one call getWorldTransform(index)
\* makes, itself included
getWorldTransform_calls(sg, index) ==
    LET node == SceneGraph_get(sg, index)
    IN  IF node.dirty /\ node.parent # index
        THEN 1 + getWorldTransform_calls(sg, node.parent)
        ELSE 1

---------------------------------------------------------------------------
(* SceneGraph::recurse (scene_graph.hpp) *)

\* the depth of nested calls at which the call stack is taken to be exhausted: more than
\* any hierarchy without cycles needs
MaxStack == MaxId + 2

RECURSIVE recurse(_, _, _)
RECURSIVE recurseEach(_, _, _, _)

\* the loop of recurse over children, from the i-th child on, with fuel nested calls left
recurseEach(sg, children, i, fuel) ==
    IF i > Len(children) THEN [visits |-> <<>>, overflow |-> FALSE]
    ELSE LET first == recurse(sg, children[i], fuel)
         IN  IF first.overflow THEN first
             ELSE LET rest == recurseEach(sg, children, i + 1, fuel)
                  IN  [visits |-> first.visits \o rest.visits, overflow |-> rest.overflow]

\* recurse(index, fn) with fn(index) = index: the indices fn was invoked on, in the order
\* of the invocations, the value returned, and whether the nesting of the calls exhausted
\* the stack, in which case the call does not return
recurse(sg, index, fuel) ==
    IF fuel = 0 THEN [visits |-> <<>>, overflow |-> TRUE, result |-> 0]
    ELSE LET below == recurseEach(sg, SceneGraph_get(sg, index).children, 1, fuel - 1)
         IN  IF below.overflow THEN [visits |-> below.visits, overflow |-> TRUE, result |-> 0]
             ELSE [visits |-> Append(below.visits, index), overflow |-> FALSE,
                   result |-> index]

---------------------------------------------------------------------------
(* Collider (physics_world.hpp), as value-initialised *)

\* callback and callbackData: 0 is the null pointer
DefaultCollider ==
    [halfExtents |-> <<0, 0>>, aabbMin |-> <<0, 0>>, aabbMax |-> <<0, 0>>,
     callback |-> 0, callbackData |-> 0]

---------------------------------------------------------------------------
(* EntityManager (ecs.hpp); componentManagers = <<sceneGraph, colliders>> *)

\* The entity manager with the managers registered in it
\*   w.freeIndices, w.nextIndex, w.sceneGraph, w.colliders

\* create(): the identifier returned
EntityManager_create_result(w) ==
    IF w.freeIndices # <<>> THEN Head(w.freeIndices) ELSE w.nextIndex

\* a mutant of create: the identifier at the front of the free list is returned but stays
\* in the list
EntityManager_create_noPop(w) ==
    IF w.freeIndices # <<>>
    THEN w
    ELSE [w EXCEPT !.nextIndex = w.nextIndex + 1]

\* a mutant of create: the identifier taken from the free list stays in the list
EntityManager_create_keepsFront(w) ==
    IF w.freeIndices # <<>>
    THEN w
    ELSE [w EXCEPT !.nextIndex = w.nextIndex + 1]

\* create(): the state it leaves
EntityManager_create(w) ==
    IF w.freeIndices # <<>>
    THEN [w EXCEPT !.freeIndices = Tail(w.freeIndices)]
    ELSE [w EXCEPT !.nextIndex = w.nextIndex + 1]

\* a mutant of destroy: the loop over the managers ends after the first one
EntityManager_destroy_skipsColliders(w, index) ==
    LET sg == IF ComponentManager_has(w.sceneGraph, index)
              THEN SceneGraph_destroy(w.sceneGraph, index)
              ELSE w.sceneGraph
    IN  [w EXCEPT !.sceneGraph = sg, !.freeIndices = Append(w.freeIndices, index)]

\* destroy(index): SceneGraph::destroy overrides ComponentManager::destroy
EntityManager_destroy(w, index) ==
    LET sg == IF ComponentManager_has(w.sceneGraph, index)
              THEN SceneGraph_destroy(w.sceneGraph, index)
              ELSE w.sceneGraph
        co == IF ComponentManager_has(w.colliders, index)
              THEN ComponentManager_destroy(w.colliders, index)
              ELSE w.colliders
    IN  [w EXCEPT !.sceneGraph = sg, !.colliders = co,
                  !.freeIndices = Append(w.freeIndices, index)]

\* destroy(index) reads only present nodes
EntityManager_destroyDefined(w, index) ==
    ComponentManager_has(w.sceneGraph, index) => SceneGraph_destroyDefined(w.sceneGraph, index)

---------------------------------------------------------------------------
(* SceneGraph::destroyHierarchy (scene_graph.cpp) *)

\* The range-for of destroyHierarchy takes node.children.begin() and .end() once and then
\* walks the vector's memory, while every child's destruction swap-removes that child from
\* this very vector (removeParent) and may move the node itself inside components
\* (ComponentManager::destroy).  pop_back invalidates the iterators the loop goes on using,
\* which is undefined behaviour; a build produces one of two outcomes:
\*   checked = FALSE  plain pointers: the loop reads the vector's memory at positions
\*                    begin..end-1, erased elements included (raw[index] is that memory);
\*   checked = TRUE   checked iterators (debug standard libraries): the process is aborted
\*                    at the first use of an invalidated iterator.
\* A call get() of an identifier without a node reads components[InvalidIndex]: the process
\* is aborted.
\*
\* The state threaded through the recursion:
\*   d.em       the entity manager with its registered managers
\*   d.raw      per identifier, the memory of the child vector its loop is walking
\*   d.log      the identifiers passed to EntityManager::destroy, in order
\*   d.crashed  the process was aborted

RECURSIVE destroyHierarchy(_, _, _)
RECURSIVE destroyHierarchyEach(_, _, _, _, _)

\* the loop over node.children, from position i to the end taken when the loop began
destroyHierarchyEach(d, index, i, end, checked) ==
    IF d.crashed \/ i = end THEN d
    ELSE LET childIndex == At(d.raw[index], i)
             after == destroyHierarchy(d, childIndex, checked)
         IN  IF after.crashed THEN after
             ELSE IF ~(ComponentManager_has(after.em.sceneGraph, index)
                          /\ getDefined(after.em.sceneGraph, index))
                  THEN [after EXCEPT !.crashed = TRUE]
             ELSE IF checked
                     /\ Len(SceneGraph_get(after.em.sceneGraph, index).children)
                          < Len(SceneGraph_get(d.em.sceneGraph, index).children)
                  THEN [after EXCEPT !.crashed = TRUE]
             ELSE destroyHierarchyEach(after, index, i + 1, end, checked)

\* destroyHierarchy(entityManager, index)
destroyHierarchy(d, index, checked) ==
    IF ~(ComponentManager_has(d.em.sceneGraph, index) /\ getDefined(d.em.sceneGraph, index))
    THEN [d EXCEPT !.crashed = TRUE]
    ELSE LET node == SceneGraph_get(d.em.sceneGraph, index)
             looped == destroyHierarchyEach([d EXCEPT !.raw[index] = node.children],
                                            index, 0, Len(node.children), checked)
             sg == looped.em.sceneGraph
         IN  IF looped.crashed THEN looped
             ELSE IF ~(ComponentManager_has(sg, index) /\ SceneGraph_destroyDefined(sg, index))
                  THEN [looped EXCEPT !.crashed = TRUE]
             ELSE LET parent == SceneGraph_get(sg, index).parent
                      children == SceneGraph_get(sg, parent).children
                      k == childSlot(children, index)
                      \* what removeParent writes into the parent's vector memory
                      raw == IF k >= 0 /\ k < Len(children) - 1 /\ k < Len(looped.raw[parent])
                             THEN [looped.raw EXCEPT ![parent] = SetAt(@, k, Back(children))]
                             ELSE looped.raw
                  IN  [em      |-> EntityManager_destroy(looped.em, index),
                       raw     |-> raw,
                       log     |-> Append(looped.log, index),
                       crashed |-> FALSE]

---------------------------------------------------------------------------
(* The entity manager, the scene graph and the colliders, driven by their callers *)

World ==
    [freeIndices |-> freeIndices, nextIndex |-> nextIndex,
     sceneGraph |-> sceneGraph, colliders |-> colliders]

SetWorld(w) ==
    /\ freeIndices' = w.freeIndices
    /\ nextIndex' = w.nextIndex
    /\ sceneGraph' = w.sceneGraph
    /\ colliders' = w.colliders

\* the state after the constructors of EntityManager, SceneGraph and ComponentManager<Collider>
WorldInit ==
    /\ freeIndices = <<>>
    /\ nextIndex = 1
    /\ sceneGraph = SceneGraph_new
    /\ colliders = EmptyManager
    /\ crashed = FALSE
    /\ returned = {}
    /\ live = {}
    /\ call = <<"none", 0, <<>>>>
    /\ misuse = FALSE
    /\ sets = 0

Present(sg, index) == ComponentManager_has(sg, index) /\ getDefined(sg, index)

\* index is a node whose parent is a node
Linked(sg, index) == Present(sg, index) /\ Present(sg, SceneGraph_get(sg, index).parent)

RECURSIVE climbs(_, _, _, _)
\* walking up the parent fields from index reaches target within n steps
climbs(sg, index, target, n) ==
    \/ index = target
    \/ /\ n > 0
       /\ Present(sg, index)
       /\ SceneGraph_get(sg, index).parent # index
       /\ climbs(sg, SceneGraph_get(sg, index).parent, target, n - 1)

\* index is a, or lies below a
Within(sg, index, a) == climbs(sg, index, a, MaxId + 1)

\* id = entityManager.create()
EM_Create ==
    /\ ~crashed
    /\ freeIndices # <<>> \/ nextIndex <= MaxId
    /\ SetWorld(EntityManager_create(World))
    /\ returned' = returned \cup {EntityManager_create_result(World)}
    /\ live' = live \cup {EntityManager_create_result(World)}
    /\ call' = <<"EntityManager::create", EntityManager_create_result(World), <<>>>>
    /\ UNCHANGED <<crashed, misuse, sets>>

\* entityManager.destroy(e) of a live identifier; the caller is expected to have removed
\* the children of its node first
EM_Destroy(e) ==
    /\ ~crashed
    /\ e \in live
    /\ EntityManager_destroyDefined(World, e)
    /\ SetWorld(EntityManager_destroy(World, e))
    /\ live' = live \ {e}
    /\ call' = <<"EntityManager::destroy", e, <<e>>>>
    /\ misuse' = (misuse \/ (/\ ComponentManager_has(sceneGraph, e)
                             /\ SceneGraph_get(sceneGraph, e).children # <<>>))
    /\ UNCHANGED <<crashed, returned, sets>>

\* entityManager.destroy(e) of an identifier that create returned and that was destroyed
\* already
EM_DestroyAgain(e) ==
    /\ ~crashed
    /\ e \in returned \ live
    /\ Len(freeIndices) < MaxFree
    /\ EntityManager_destroyDefined(World, e)
    /\ SetWorld(EntityManager_destroy(World, e))
    /\ call' = <<"EntityManager::destroy", e, <<e>>>>
    /\ misuse' = TRUE
    /\ UNCHANGED <<crashed, returned, live, sets>>

\* sceneGraph.create(e, p)
SG_Create(e, p) ==
    /\ ~crashed
    /\ e \in live
    /\ ~ComponentManager_has(sceneGraph, e)
    /\ Present(sceneGraph, p)
    /\ sceneGraph' = SceneGraph_create(sceneGraph, e, p)
    /\ UNCHANGED <<freeIndices, nextIndex, colliders, crashed, returned, live, call, misuse, sets>>

\* index = entityManager.create(); sceneGraph.create(index, p), as the game's factories do
NewNode(p) ==
    /\ ~crashed
    /\ freeIndices # <<>> \/ nextIndex <= MaxId
    /\ Present(sceneGraph, p)
    /\ ~ComponentManager_has(sceneGraph, EntityManager_create_result(World))
    /\ SetWorld([EntityManager_create(World) EXCEPT
                    !.sceneGraph = SceneGraph_create(sceneGraph,
                                                     EntityManager_create_result(World), p)])
    /\ returned' = returned \cup {EntityManager_create_result(World)}
    /\ live' = live \cup {EntityManager_create_result(World)}
    /\ call' = <<"EntityManager::create", EntityManager_create_result(World), <<>>>>
    /\ UNCHANGED <<crashed, misuse, sets>>

\* TheGame::createSprite(p, position, ..., heightForDepth): a new entity with a node below p,
\* its position and its height for depth set
createSprite(p, position, heightForDepth) ==
    LET index == EntityManager_create_result(World)
    IN  /\ ~crashed
        /\ freeIndices # <<>> \/ nextIndex <= MaxId
        /\ Present(sceneGraph, p)
        /\ ~ComponentManager_has(sceneGraph, index)
        /\ SetWorld([EntityManager_create(World) EXCEPT
                        !.sceneGraph =
                            SceneGraph_setHeightForDepth(
                                SceneGraph_setPosition(SceneGraph_create(sceneGraph, index, p),
                                                       index, position),
                                index, heightForDepth)])
        /\ returned' = returned \cup {index}
        /\ live' = live \cup {index}
        /\ call' = <<"EntityManager::create", index, <<>>>>
        /\ UNCHANGED <<crashed, misuse, sets>>

\* TheGame::createCharacter, a hand: a new entity with a node below p, its position and its
\* rotation set
createCharacter_hand(p, position, rotation) ==
    LET index == EntityManager_create_result(World)
    IN  /\ ~crashed
        /\ freeIndices # <<>> \/ nextIndex <= MaxId
        /\ Present(sceneGraph, p)
        /\ ~ComponentManager_has(sceneGraph, index)
        /\ SetWorld([EntityManager_create(World) EXCEPT
                        !.sceneGraph =
                            SceneGraph_setRotation(
                                SceneGraph_setPosition(SceneGraph_create(sceneGraph, index, p),
                                                       index, position),
                                index, rotation)])
        /\ returned' = returned \cup {index}
        /\ live' = live \cup {index}
        /\ call' = <<"EntityManager::create", index, <<>>>>
        /\ UNCHANGED <<crashed, misuse, sets>>

\* TheGame::createCharacter, a shoulder: a new entity with a node below p, its position and
\* its depth set
createCharacter_shoulder(p, position, depth) ==
    LET index == EntityManager_create_result(World)
    IN  /\ ~crashed
        /\ freeIndices # <<>> \/ nextIndex <= MaxId
        /\ Present(sceneGraph, p)
        /\ ~ComponentManager_has(sceneGraph, index)
        /\ SetWorld([EntityManager_create(World) EXCEPT
                        !.sceneGraph =
                            SceneGraph_setDepth(
                                SceneGraph_setPosition(SceneGraph_create(sceneGraph, index, p),
                                                       index, position),
                                index, depth)])
        /\ returned' = returned \cup {index}
        /\ live' = live \cup {index}
        /\ call' = <<"EntityManager::create", index, <<>>>>
        /\ UNCHANGED <<crashed, misuse, sets>>

\* sceneGraph.setParent(e, p), never asked to form a cycle
SG_SetParent(e, p) ==
    /\ ~crashed
    /\ e # 0
    /\ Linked(sceneGraph, e)
    /\ Present(sceneGraph, p)
    /\ ~Within(sceneGraph, p, e)
    /\ sceneGraph' = SceneGraph_setParent(sceneGraph, e, p)
    /\ UNCHANGED <<freeIndices, nextIndex, colliders, crashed, returned, live, call, misuse>>

\* sceneGraph.recurse(e, fn), fn the identity
SG_Recurse(e) ==
    /\ ~crashed
    /\ Present(sceneGraph, e)
    /\ call' = <<"SceneGraph::recurse", e, recurse(sceneGraph, e, MaxStack)>>
    /\ crashed' = recurse(sceneGraph, e, MaxStack).overflow
    /\ UNCHANGED <<freeIndices, nextIndex, sceneGraph, colliders, returned, live, misuse, sets>>

\* sceneGraph.destroyHierarchy(entityManager, e)
SG_DestroyHierarchy(e, checked) ==
    /\ ~crashed
    /\ e # 0
    /\ e \in live
    /\ Present(sceneGraph, e)
    /\ LET d == destroyHierarchy([em |-> World, raw |-> [x \in Ids |-> <<>>],
                                  log |-> <<>>, crashed |-> FALSE], e, checked)
       IN  /\ SetWorld(d.em)
           /\ crashed' = d.crashed
           /\ live' = live \ {d.log[i] : i \in 1..Len(d.log)}
           /\ call' = <<"SceneGraph::destroyHierarchy", e, d.log>>
    /\ UNCHANGED <<returned, misuse, sets>>

\* colliders.create(e)
Colliders_Create(e) ==
    /\ ~crashed
    /\ e \in live
    /\ ~ComponentManager_has(colliders, e)
    /\ colliders' = ComponentManager_create(colliders, e, DefaultCollider)
    /\ UNCHANGED <<freeIndices, nextIndex, sceneGraph, crashed, returned, live, call, misuse, sets>>

\* colliders.get(e).halfExtents = <<x, x>>
Colliders_Write(e, x) ==
    /\ ~crashed
    /\ Present(colliders, e)
    /\ colliders' = ComponentManager_put(colliders, e,
                         [ComponentManager_get(colliders, e) EXCEPT !.halfExtents = <<x, x>>])
    /\ UNCHANGED <<freeIndices, nextIndex, sceneGraph, crashed, returned, live, call, misuse, sets>>

---------------------------------------------------------------------------
(* The transforms of the scene graph, driven by their callers *)

\* the values the callers pass to the setters
Positions == {<<1, 0>>, <<0, 1>>}
Rotations == {1}
Depths == {1}
Heights == {1}

\* every node on the parent chain of index is present, and the chain ends at the root
RECURSIVE Rooted(_, _, _)
Rooted(sg, index, n) ==
    /\ Present(sg, index)
    /\ \/ SceneGraph_get(sg, index).parent = index
       \/ n > 0 /\ Rooted(sg, SceneGraph_get(sg, index).parent, n - 1)

\* sceneGraph.setPosition(e, v)
SG_SetPosition(e, v) ==
    /\ ~crashed
    /\ Present(sceneGraph, e)
    /\ sets < MaxSets
    /\ sets' = sets + 1
    /\ sceneGraph' = SceneGraph_setPosition(sceneGraph, e, v)
    /\ UNCHANGED <<freeIndices, nextIndex, colliders, crashed, returned, live, call, misuse>>

\* sceneGraph.setRotation(e, v)
SG_SetRotation(e, v) ==
    /\ ~crashed
    /\ Present(sceneGraph, e)
    /\ sets < MaxSets
    /\ sets' = sets + 1
    /\ sceneGraph' = SceneGraph_setRotation(sceneGraph, e, v)
    /\ UNCHANGED <<freeIndices, nextIndex, colliders, crashed, returned, live, call, misuse>>

\* sceneGraph.setDepth(e, v)
SG_SetDepth(e, v) ==
    /\ ~crashed
    /\ Present(sceneGraph, e)
    /\ sets < MaxSets
    /\ sets' = sets + 1
    /\ sceneGraph' = SceneGraph_setDepth(sceneGraph, e, v)
    /\ UNCHANGED <<freeIndices, nextIndex, colliders, crashed, returned, live, call, misuse>>

\* sceneGraph.setHeightForDepth(e, v)
SG_SetHeightForDepth(e, v) ==
    /\ ~crashed
    /\ Present(sceneGraph, e)
    /\ sets < MaxSets
    /\ sets' = sets + 1
    /\ sceneGraph' = SceneGraph_setHeightForDepth(sceneGraph, e, v)
    /\ UNCHANGED <<freeIndices, nextIndex, colliders, crashed, returned, live, call, misuse>>

\* sceneGraph.getWorldTransform(e)
SG_GetWorldTransform(e) ==
    /\ ~crashed
    /\ Rooted(sceneGraph, e, MaxId + 1)
    /\ sceneGraph' = getWorldTransform(sceneGraph, e)
    /\ UNCHANGED <<freeIndices, nextIndex, colliders, crashed, returned, live, call, misuse, sets>>

---------------------------------------------------------------------------
(* collideBoxes (physics_world.cpp) *)

\* Lengths are whole numbers of a unit the caller chooses.  A rotation matrix is kept in
\* fifths (5 cos, 5 sin), so that besides the quarter turns the angles of the 3-4-5 triangle
\* have exact matrices; products of two matrices are in 25ths.  A matrix is the pair of its
\* columns, as in glm.

Abs(x) == IF x < 0 THEN -x ELSE x
Vadd(a, b) == <<a[1] + b[1], a[2] + b[2]>>
Vsub(a, b) == <<a[1] - b[1], a[2] - b[2]>>
Vneg(a) == <<-a[1], -a[2]>>
Vscale(k, a) == <<k * a[1], k * a[2]>>
Vabs(a) == <<Abs(a[1]), Abs(a[2])>>
Dot(a, b) == a[1] * b[1] + a[2] * b[2]
MatVec(m, v) == Vadd(Vscale(v[1], m[1]), Vscale(v[2], m[2]))
MatMul(a, b) == <<MatVec(a, b[1]), MatVec(a, b[2])>>
Transpose(m) == <<<<m[1][1], m[2][1]>>, <<m[1][2], m[2][2]>>>>

\* rotationMat2(rotation), rotation in quarter turns; in fifths
rotationMat2(rotation) ==
    <<<<5 * Cos(rotation), 5 * Sin(rotation)>>, <<-(5 * Sin(rotation)), 5 * Cos(rotation)>>>>

\* a mutant of collideFrames' last two tests: the axis of box 1 is not turned toward box 1
collideFrames_axisOfBox1Kept(r1, d1, e1, e01, result) ==
    LET x == 5 * Abs(d1[1]) - 25 * e1[1] - e01[1]
        afterX == IF x > result.depth THEN [depth |-> x, axis |-> Vneg(r1[1])] ELSE result
        y == 5 * Abs(d1[2]) - 25 * e1[2] - e01[2]
    IN  IF x > result.depth /\ x > 0 THEN afterX
        ELSE IF y > afterX.depth THEN [depth |-> y, axis |-> Vneg(r1[2])] ELSE afterX

\* a mutant of collideFrames' last two tests: an axis of box 1 also replaces the result
\* when its depth equals the depth found so far
collideFrames_tieToBox1(r1, d1, e1, e01, result) ==
    LET x == 5 * Abs(d1[1]) - 25 * e1[1] - e01[1]
        afterX == IF x >= result.depth
                  THEN [depth |-> x, axis |-> IF d1[1] > 0 THEN r1[1] ELSE Vneg(r1[1])]
                  ELSE result
        y == 5 * Abs(d1[2]) - 25 * e1[2] - e01[2]
    IN  IF x >= result.depth /\ x > 0 THEN afterX
        ELSE IF y >= afterX.depth
             THEN [depth |-> y, axis |-> IF d1[2] > 0 THEN r1[2] ELSE Vneg(r1[2])]
             ELSE afterX

\* collideBoxes from "test b1 axes" on: the tests of the two axes of box 1
collideFrames_box1(r1, d1, e1, e01, result) ==
    LET x == 5 * Abs(d1[1]) - 25 * e1[1] - e01[1]
        afterX == IF x > result.depth
                  THEN [depth |-> x, axis |-> IF d1[1] > 0 THEN r1[1] ELSE Vneg(r1[1])]
                  ELSE result
        y == 5 * Abs(d1[2]) - 25 * e1[2] - e01[2]
    IN  IF x > result.depth /\ x > 0 THEN afterX
        ELSE IF y > afterX.depth
             THEN [depth |-> y, axis |-> IF d1[2] > 0 THEN r1[2] ELSE Vneg(r1[2])]
             ELSE afterX

\* a mutant of collideFrames: the test of box 0's x axis does not return early
collideFrames_noEarlyReturn(r0, p0, e0, r1, p1, e1) ==
    LET r0t == Transpose(r0)
        d == Vsub(p1, p0)
        d0 == MatVec(r0t, d)
        d1 == MatVec(Transpose(r1), d)
        r1to0 == MatMul(r0t, r1)
        ar10 == <<Vabs(r1to0[1]), Vabs(r1to0[2])>>
        e10 == MatVec(ar10, e1)
        x == 5 * Abs(d0[1]) - 25 * e0[1] - e10[1]
        afterX == [depth |-> x, axis |-> IF d0[1] < 0 THEN Vneg(r0[1]) ELSE r0[1]]
        y == 5 * Abs(d0[2]) - 25 * e0[2] - e10[2]
        afterY == IF y > afterX.depth
                  THEN [depth |-> y, axis |-> IF d0[2] < 0 THEN Vneg(r0[2]) ELSE r0[2]]
                  ELSE afterX
    IN  IF y > afterX.depth /\ y > 0 THEN afterY
        ELSE collideFrames_box1(r1, d1, e1, MatVec(Transpose(ar10), e0), afterY)

\* collideBoxes once r0 and r1 are computed: transform0.position = p0, transform1.position
\* = p1.  The result: depth in 25ths of the unit, axis in fifths.
collideFrames(r0, p0, e0, r1, p1, e1) ==
    LET r0t == Transpose(r0)
        r1t == Transpose(r1)
        d == Vsub(p1, p0)
        d0 == MatVec(r0t, d)
        d1 == MatVec(r1t, d)
        r1to0 == MatMul(r0t, r1)
        ar10 == <<Vabs(r1to0[1]), Vabs(r1to0[2])>>
        e10 == MatVec(ar10, e1)
        x == 5 * Abs(d0[1]) - 25 * e0[1] - e10[1]
        afterX == [depth |-> x, axis |-> IF d0[1] < 0 THEN Vneg(r0[1]) ELSE r0[1]]
        y == 5 * Abs(d0[2]) - 25 * e0[2] - e10[2]
        afterY == IF y > afterX.depth
                  THEN [depth |-> y, axis |-> IF d0[2] < 0 THEN Vneg(r0[2]) ELSE r0[2]]
                  ELSE afterX
        e01 == MatVec(Transpose(ar10), e0)
    IN  IF x > 0 THEN afterX
        ELSE IF y > afterX.depth /\ y > 0 THEN afterY
        ELSE collideFrames_box1(r1, d1, e1, e01, afterY)

\* collideBoxes(transform0, e0, transform1, e1) for rotations that are quarter turns: the
\* depth is then a whole number of units and the axis a unit vector with whole components
collideBoxes(transform0, e0, transform1, e1) ==
    LET result == collideFrames(rotationMat2(transform0.rotation), transform0.position, e0,
                                rotationMat2(transform1.rotation), transform1.position, e1)
    IN  [index0 |-> 0, index1 |-> 0, depth |-> result.depth \div 25,
         axis |-> <<result.axis[1] \div 5, result.axis[2] \div 5>>]

\* the rotation matrices, centres and half extents collideBoxes is called with on its own
BoxFrames ==
    {rotationMat2(0), rotationMat2(1), <<<<3, 4>>, <<-4, 3>>>>, <<<<4, 3>>, <<-3, 4>>>>,
     <<<<-3, 4>>, <<-4, -3>>>>}
BoxCentres == {<<x, y>> : x \in {-11, -9, -6, 0, 6, 9, 11}, y \in {-13, -11, -6, 0, 6, 11, 13}}
BoxExtents == {<<5, 5>>, <<5, 10>>, <<2, 8>>}

\* collideBoxes called with box 0 at the origin.  The function is pure: a behaviour calls
\* it once.
CollideBoxes(r0, e0, r1, p1, e1) ==
    /\ boxes = <<>>
    /\ boxes' = [r0 |-> r0, p0 |-> <<0, 0>>, e0 |-> e0, r1 |-> r1, p1 |-> p1, e1 |-> e1,
                 result |-> collideFrames(r0, <<0, 0>>, e0, r1, p1, e1)]
    /\ UNCHANGED <<storeVars, worldVars, dynamics, collisionRecords, sortIndices, intervals,
                   trace, updates, game>>

---------------------------------------------------------------------------
(* PhysicsWorld::update (physics_world.hpp, physics_world.cpp) *)

\* Dynamic, as value-initialised.  The damping is kept in tenths: 1 is 0.1f.
DefaultDynamic == [mass |-> 0, damping |-> 0, velocity |-> <<0, 0>>]

\* the part of the state update works on, with the trace of what it did
Physics ==
    [sceneGraph |-> sceneGraph, colliders |-> colliders, dynamics |-> dynamics,
     collisionRecords |-> collisionRecords, intervals |-> intervals, trace |-> <<>>,
     game |-> [game EXCEPT !.seen = <<>>]]

\* body.damping * body.velocity * dt, ten times: the damping is in tenths
dampingTimesTen(body, dt) == Vscale(body.damping * dt, body.velocity)

\* the arithmetic of the model is exact: the damped velocity has whole components
dampingExact(body, dt) ==
    dampingTimesTen(body, dt)[1] % 10 = 0 /\ dampingTimesTen(body, dt)[2] % 10 = 0

\* a mutant of integrateOne: the damping is used up, body.damping is zero afterwards
integrateOne_dampingSpent(p, index, dt) ==
    LET body == ComponentManager_get(p.dynamics, index)
        position == SceneGraph_getLocalTransform(p.sceneGraph, index).position
        lost == dampingTimesTen(body, dt)
    IN  [p EXCEPT
            !.sceneGraph = SceneGraph_setPosition(p.sceneGraph, index,
                                                  Vadd(position, Vscale(dt, body.velocity))),
            !.dynamics = ComponentManager_put(p.dynamics, index,
                             [body EXCEPT !.damping = 0,
                                          !.velocity =
                                  Vsub(body.velocity, <<lost[1] \div 10, lost[2] \div 10>>)]),
            !.trace = Append(p.trace, <<"integrate", index>>)]

\* a mutant of integrateOne: the velocity is damped before the position is advanced
integrateOne_dampedFirst(p, index, dt) ==
    LET body == ComponentManager_get(p.dynamics, index)
        position == SceneGraph_getLocalTransform(p.sceneGraph, index).position
        lost == dampingTimesTen(body, dt)
        damped == Vsub(body.velocity, <<lost[1] \div 10, lost[2] \div 10>>)
    IN  [p EXCEPT
            !.sceneGraph = SceneGraph_setPosition(p.sceneGraph, index,
                                                  Vadd(position, Vscale(dt, damped))),
            !.dynamics = ComponentManager_put(p.dynamics, index,
                                              [body EXCEPT !.velocity = damped]),
            !.trace = Append(p.trace, <<"integrate", index>>)]

\* the body of the first loop of update, for one index of dynamics.indices()
integrateOne(p, index, dt) ==
    LET body == ComponentManager_get(p.dynamics, index)
        position == SceneGraph_getLocalTransform(p.sceneGraph, index).position
        lost == dampingTimesTen(body, dt)
    IN  [p EXCEPT
            !.sceneGraph = SceneGraph_setPosition(p.sceneGraph, index,
                                                  Vadd(position, Vscale(dt, body.velocity))),
            !.dynamics = ComponentManager_put(p.dynamics, index,
                             [body EXCEPT !.velocity =
                                  Vsub(body.velocity, <<lost[1] \div 10, lost[2] \div 10>>)]),
            !.trace = Append(p.trace, <<"integrate", index>>)]

RECURSIVE integrateEach(_, _, _)
\* the first loop of update, from the i-th index of dynamics.indices() on
integrateEach(p, i, dt) ==
    IF i > Len(ComponentManager_indices(p.dynamics)) THEN p
    ELSE integrateEach(integrateOne(p, ComponentManager_indices(p.dynamics)[i], dt), i + 1, dt)

\* the body of the second loop of update, for one index of colliders.indices(): the world
\* transform is fetched, which refreshes the caches of the scene graph, and the bounding box
\* of the rotated box is stored
refreshOne(p, index) ==
    LET sg == getWorldTransform(p.sceneGraph, index)
        worldTransform == SceneGraph_get(sg, index).world
        r == rotationMat2(worldTransform.rotation)
        m == <<Vabs(r[1]), Vabs(r[2])>>
        collider == ComponentManager_get(p.colliders, index)
        extentTimesFive == MatVec(m, collider.halfExtents)
        extent == <<extentTimesFive[1] \div 5, extentTimesFive[2] \div 5>>
    IN  [p EXCEPT
            !.sceneGraph = sg,
            !.colliders = ComponentManager_put(p.colliders, index,
                              [collider EXCEPT
                                   !.aabbMin = Vsub(worldTransform.position, extent),
                                   !.aabbMax = Vadd(worldTransform.position, extent)]),
            !.trace = Append(p.trace, <<"aabb", index>>)]

RECURSIVE refreshEach(_, _)
\* the second loop of update, from the i-th index of colliders.indices() on
refreshEach(p, i) ==
    IF i > Len(ComponentManager_indices(p.colliders)) THEN p
    ELSE refreshEach(refreshOne(p, ComponentManager_indices(p.colliders)[i]), i + 1)

\* the comparison std::sort is given
sortLess(m, index0, index1) ==
    ComponentManager_get(m, index0).aabbMin[1] < ComponentManager_get(m, index1).aabbMin[1]

RECURSIVE ordersOf(_, _)

\* the orders of the indices in rest in which no element is less than an earlier one: the
\* first is one that none of rest is less than
ordersOf(m, rest) ==
    IF rest = {} THEN {<<>>}
    ELSE UNION {{<<first>> \o order : order \in ordersOf(m, rest \ {first})} :
                   first \in {index \in rest : \A other \in rest : ~sortLess(m, other, index)}}

\* the orders std::sort can leave sortIndices in: the permutations of colliders.indices() in
\* which no element is less than an earlier one; the order of elements that compare equal
\* is unspecified
sortedOrders(m) ==
    UNION {ordersOf(store, Range(ComponentManager_indices(store))) : store \in {m}}

\* a mutant of clearLists: the lists keep what the previous update left
clearLists_keeps(p) == p

\* collisionRecords.clear(); intervals.clear()
clearLists(p) == [p EXCEPT !.collisionRecords = <<>>, !.intervals = <<>>]

\* "remove inactive intervals": the intervals kept for collider0, in their order
activeIntervals(p, index0) ==
    LET collider0 == ComponentManager_get(p.colliders, index0)
        active(index1) ==
            ~(ComponentManager_get(p.colliders, index1).aabbMax[1] < collider0.aabbMin[1])
    IN  SelectSeq(p.intervals, active)

\* a mutant of aabbTest: closed intervals in all four comparisons
aabbTest_closed(collider0, collider1) ==
    /\ collider0.aabbMax[1] >= collider1.aabbMin[1]
    /\ collider0.aabbMax[2] >= collider1.aabbMin[2]
    /\ collider1.aabbMax[1] >= collider0.aabbMin[1]
    /\ collider1.aabbMax[2] >= collider0.aabbMin[2]

\* the condition of "test aabbs and add pairs"
aabbTest(collider0, collider1) ==
    /\ collider0.aabbMax[1] >= collider1.aabbMin[1]
    /\ collider0.aabbMax[2] >= collider1.aabbMin[2]
    /\ collider1.aabbMax[1] > collider0.aabbMin[1]
    /\ collider1.aabbMax[2] >= collider0.aabbMin[2]

\* the body of the test of one pair: collideBoxes on the two world transforms, and the
\* record pushed when the depth is negative.  The trace gets the pair and the result.
narrowPhase(p, index0, index1) ==
    LET sg == getWorldTransform(getWorldTransform(p.sceneGraph, index0), index1)
        result == collideBoxes(SceneGraph_get(sg, index0).world,
                               ComponentManager_get(p.colliders, index0).halfExtents,
                               SceneGraph_get(sg, index1).world,
                               ComponentManager_get(p.colliders, index1).halfExtents)
    IN  [p EXCEPT
            !.sceneGraph = sg,
            !.collisionRecords =
                IF result.depth < 0
                THEN Append(p.collisionRecords,
                            [result EXCEPT !.index0 = index0, !.index1 = index1])
                ELSE p.collisionRecords,
            !.trace = Append(p.trace, <<"narrow", index0, index1, result>>)]

RECURSIVE testEach(_, _, _)
\* "test aabbs and add pairs" for index0, from the i-th interval on
testEach(p, index0, i) ==
    IF i > Len(p.intervals) THEN p
    ELSE LET index1 == p.intervals[i]
         IN  testEach(IF aabbTest(ComponentManager_get(p.colliders, index0),
                                  ComponentManager_get(p.colliders, index1))
                      THEN narrowPhase(p, index0, index1)
                      ELSE p,
                      index0, i + 1)

\* a mutant of sweepOne: index0 is pushed onto the intervals before the tests
sweepOne_pushedFirst(p, index0) ==
    testEach([p EXCEPT !.intervals = Append(activeIntervals(p, index0), index0)], index0, 1)

\* the body of the sweep for one index0 of sortIndices
sweepOne(p, index0) ==
    LET tested == testEach([p EXCEPT !.intervals = activeIntervals(p, index0)], index0, 1)
    IN  [tested EXCEPT !.intervals = Append(tested.intervals, index0)]

RECURSIVE sweepEach(_, _, _)
\* the sweep over sortIndices = order, from its i-th element on
sweepEach(p, order, i) ==
    IF i > Len(order) THEN p
    ELSE sweepEach(sweepOne(p, order[i]), order, i + 1)

\* what resolution can change for a record: the world positions and the velocities of
\* its two bodies
bodies(p, record) ==
    [position0 |-> getWorldTransform_result(p.sceneGraph, record.index0).position,
     position1 |-> getWorldTransform_result(p.sceneGraph, record.index1).position,
     velocity0 |-> ComponentManager_get(p.dynamics, record.index0).velocity,
     velocity1 |-> ComponentManager_get(p.dynamics, record.index1).velocity,
     mass0 |-> ComponentManager_get(p.dynamics, record.index0).mass,
     mass1 |-> ComponentManager_get(p.dynamics, record.index1).mass]

\* a mutant of resolveStatic: the moving body is moved, its velocity is kept
resolveStatic_keepsVelocity(p, record) ==
    LET body0 == ComponentManager_get(p.dynamics, record.index0)
        moved == IF body0.mass = 0 THEN record.index1 ELSE record.index0
        position == SceneGraph_getLocalTransform(p.sceneGraph, moved).position
        push == Vscale(record.depth, record.axis)
    IN  [p EXCEPT !.sceneGraph =
            SceneGraph_setPosition(p.sceneGraph, moved,
                IF body0.mass = 0 THEN Vsub(position, push) ELSE Vadd(position, push))]

\* the resolution of a record of which exactly one body is static
resolveStatic(p, record) ==
    LET body0 == ComponentManager_get(p.dynamics, record.index0)
        body1 == ComponentManager_get(p.dynamics, record.index1)
        push == Vscale(record.depth, record.axis)
    IN  IF body0.mass = 0
        THEN LET position == SceneGraph_getLocalTransform(p.sceneGraph, record.index1).position
                 relativeVelocity == Vsub(body1.velocity, body0.velocity)
                 along == Vscale(Dot(relativeVelocity, record.axis), record.axis)
             IN  [p EXCEPT
                     !.sceneGraph = SceneGraph_setPosition(p.sceneGraph, record.index1,
                                                           Vsub(position, push)),
                     !.dynamics = ComponentManager_put(p.dynamics, record.index1,
                                      [body1 EXCEPT !.velocity =
                                           Vadd(Vsub(relativeVelocity, along), body0.velocity)])]
        ELSE LET position == SceneGraph_getLocalTransform(p.sceneGraph, record.index0).position
                 relativeVelocity == Vsub(body0.velocity, body1.velocity)
                 along == Vscale(Dot(relativeVelocity, record.axis), record.axis)
             IN  [p EXCEPT
                     !.sceneGraph = SceneGraph_setPosition(p.sceneGraph, record.index0,
                                                           Vadd(position, push)),
                     !.dynamics = ComponentManager_put(p.dynamics, record.index0,
                                      [body0 EXCEPT !.velocity =
                                           Vadd(Vsub(relativeVelocity, along), body1.velocity)])]

\* the resolution of a record of which both bodies are not static
resolveDynamic(p, record) ==
    LET body0 == ComponentManager_get(p.dynamics, record.index0)
        body1 == ComponentManager_get(p.dynamics, record.index1)
        impulse == Vscale(10 * record.depth, record.axis)
    IN  [p EXCEPT !.dynamics =
            ComponentManager_put(
                ComponentManager_put(p.dynamics, record.index0,
                    [body0 EXCEPT !.velocity =
                         Vadd(body0.velocity,
                              <<impulse[1] \div body0.mass, impulse[2] \div body0.mass>>)]),
                record.index1,
                [body1 EXCEPT !.velocity =
                     Vsub(body1.velocity,
                          <<impulse[1] \div body1.mass, impulse[2] \div body1.mass>>)])]

\* the local positions of all nodes and the velocities of all dynamic bodies
kinematics(p) ==
    [positions |-> [k \in 1..Len(p.sceneGraph.components) |->
                        p.sceneGraph.components[k].local.position],
     velocities |-> [k \in 1..Len(p.dynamics.components) |->
                         p.dynamics.components[k].velocity]]

\* a mutant of resolveOne: a record of two static bodies is resolved as if one were not
resolveOne_staticsPushed(p, k) ==
    LET record == p.collisionRecords[k]
        both == ComponentManager_has(p.dynamics, record.index0)
                    /\ ComponentManager_has(p.dynamics, record.index1)
        resolved == IF ~both THEN p
                    ELSE IF ComponentManager_get(p.dynamics, record.index0).mass # 0
                            /\ ComponentManager_get(p.dynamics, record.index1).mass # 0
                    THEN resolveDynamic(p, record)
                    ELSE resolveStatic(p, record)
    IN  [resolved EXCEPT !.trace =
            Append(p.trace,
                   IF both THEN <<"resolve", k, bodies(p, record), bodies(resolved, record)>>
                   ELSE <<"resolve", k,
                          [before |-> kinematics(p), after |-> kinematics(resolved)]>>)]

\* the first half of the body of the last loop of update, for the k-th record: the
\* resolution.  The trace gets the world positions and velocities of the two bodies before
\* and after it when both entities have a dynamic body, and the local positions and
\* velocities of everything before and after it otherwise.
resolveOne(p, k) ==
    LET record == p.collisionRecords[k]
        both == ComponentManager_has(p.dynamics, record.index0)
                    /\ ComponentManager_has(p.dynamics, record.index1)
        resolved ==
            IF ~both THEN p
            ELSE LET body0Static == ComponentManager_get(p.dynamics, record.index0).mass = 0
                     body1Static == ComponentManager_get(p.dynamics, record.index1).mass = 0
                 IN  IF body0Static # body1Static THEN resolveStatic(p, record)
                     ELSE IF ~body0Static THEN resolveDynamic(p, record)
                     ELSE p
    IN  [resolved EXCEPT !.trace =
            Append(p.trace,
                   IF both THEN <<"resolve", k, bodies(p, record), bodies(resolved, record)>>
                   ELSE <<"resolve", k,
                          [before |-> kinematics(p), after |-> kinematics(resolved)]>>)]

---------------------------------------------------------------------------
(* The collision callbacks of TheGame (the_game.cpp, the_game.hpp) *)

\* Weapon, Hurtbox, Health, Trigger and Player as value-initialised, with the members the
\* callbacks and updateHealth read or write.  Health::invincibleTime = 1.0f is in tenths.
DefaultWeapon == [sharp |-> FALSE, owner |-> 0, damage |-> 0]
DefaultHurtbox == [multiplier |-> 1, owner |-> 0]
invincibleTime == 10
DefaultHealth ==
    [value |-> 0, max |-> 0, state |-> "Normal", stateTimer |-> 0, takingDamage |-> FALSE,
     healthBar |-> 0, onDied |-> 0]
DefaultTrigger == [active |-> FALSE, condition |-> 0]
DefaultPlayer == [delivery |-> 0]

\* weaponCollisionCallback and deliveryAddressTriggerCondition
weaponCollisionCallback == 2
deliveryAddressTriggerCondition == 1

\* the stores of TheGame as its constructor leaves them
\*   g.died      TheGame::died
\*   g.seen      history: for every callback the last update invoked, in order, which
\*               entities had a node, a collider and a dynamic body when it returned
\*   g.looped    history: the same when the first loop of the last updateHealth ended
\*   g.frames    history: the number of calls of updateWeapons and of updateHealth so far
GameInit ==
    [weapons |-> EmptyManager, hurtboxes |-> EmptyManager, healthComponents |-> EmptyManager,
     players |-> EmptyManager, triggers |-> EmptyManager, deliveries |-> EmptyManager,
     died |-> <<>>, isGameOver |-> FALSE, seen |-> <<>>, looped |-> <<>>,
     frames |-> [updateWeapons |-> 0, updateHealth |-> 0]]

\* which entities have a component in the three stores update works on
layout(p) == [sceneGraph |-> [componentIndices |-> p.sceneGraph.componentIndices,
                              packedIndices |-> p.sceneGraph.packedIndices],
              colliders |-> [componentIndices |-> p.colliders.componentIndices,
                             packedIndices |-> p.colliders.packedIndices],
              dynamics |-> [componentIndices |-> p.dynamics.componentIndices,
                            packedIndices |-> p.dynamics.packedIndices]]

\* a mutant of onWeaponCollision: a hit that uses up the health removes the owner's
\* dynamic body there and then
onWeaponCollision_removesDead(p, index, other) ==
    LET g == p.game
        weapon == ComponentManager_get(g.weapons, index)
    IN  IF weapon.sharp /\ ComponentManager_has(g.hurtboxes, other)
        THEN LET hurtbox == ComponentManager_get(g.hurtboxes, other)
                 health == ComponentManager_get(g.healthComponents, hurtbox.owner)
                 value == health.value - hurtbox.multiplier * weapon.damage
             IN  IF hurtbox.owner # weapon.owner /\ health.state # "Invincible"
                 THEN [p EXCEPT
                          !.game.healthComponents =
                              ComponentManager_put(g.healthComponents, hurtbox.owner,
                                  [health EXCEPT !.value = value, !.takingDamage = TRUE]),
                          !.dynamics =
                              IF value <= 0 /\ ComponentManager_has(p.dynamics, hurtbox.owner)
                              THEN ComponentManager_destroy(p.dynamics, hurtbox.owner)
                              ELSE p.dynamics]
                 ELSE p
        ELSE p

\* TheGame::onWeaponCollision(index, other, collisionRecord); the sound it plays is no
\* part of the state
onWeaponCollision(p, index, other) ==
    LET g == p.game
        weapon == ComponentManager_get(g.weapons, index)
    IN  IF weapon.sharp /\ ComponentManager_has(g.hurtboxes, other)
        THEN LET hurtbox == ComponentManager_get(g.hurtboxes, other)
                 health == ComponentManager_get(g.healthComponents, hurtbox.owner)
             IN  IF hurtbox.owner # weapon.owner /\ health.state # "Invincible"
                 THEN [p EXCEPT !.game.healthComponents =
                          ComponentManager_put(g.healthComponents, hurtbox.owner,
                              [health EXCEPT
                                  !.value = @ - hurtbox.multiplier * weapon.damage,
                                  !.takingDamage = TRUE])]
                 ELSE p
        ELSE p

\* TheGame::hasDeliveryForAddress(address)
hasDeliveryForAddress(g, address) ==
    IF g.players.components = <<>>
          \/ ~ComponentManager_has(g.deliveries, Head(g.players.components).delivery)
    THEN FALSE
    ELSE ComponentManager_get(g.deliveries, Head(g.players.components).delivery).address
             = address

\* TheGame::onTriggerCollision(index, other, collisionRecord)
onTriggerCollision(p, index, other) ==
    LET g == p.game
    IN  IF ComponentManager_has(g.players, other)
        THEN LET trigger == ComponentManager_get(g.triggers, index)
             IN  [p EXCEPT !.game.triggers =
                     ComponentManager_put(g.triggers, index,
                         [trigger EXCEPT !.active =
                             trigger.condition = 0 \/ hasDeliveryForAddress(g, index)])]
        ELSE p

---------------------------------------------------------------------------
(* PhysicsWorld::update, the records (physics_world.cpp) *)

\* one turn of the loop over i, in the state q: the callback of the active entity's
\* collider, if there is one, is invoked; the invocation is put on the trace, and what the
\* callback left of the stores on g.seen
dispatchIn(q, k, active, other) ==
    LET collider == ComponentManager_get(q.colliders, active)
        logged == [q EXCEPT !.trace =
                      Append(q.trace,
                             <<"callback", collider.callback, active, other, k,
                               collider.callbackData>>)]
        called == IF collider.callback = weaponCollisionCallback
                  THEN onWeaponCollision(logged, active, other)
                  ELSE onTriggerCollision(logged, active, other)
    IN  IF collider.callback # 0
        THEN [called EXCEPT !.game.seen = Append(@, layout(called))]
        ELSE q

\* one turn of the loop over i; q is the state p the turn begins in
dispatchRole(p, k, active, other) ==
    CHOOSE r \in {dispatchIn(q, k, active, other) : q \in {p}} : TRUE

\* a mutant of dispatchOne: only the record's first entity is taken as the active one
dispatchOne_firstRoleOnly(p, k) ==
    dispatchRole(p, k, p.collisionRecords[k].index0, p.collisionRecords[k].index1)

\* the second half of the body of the last loop of update, for the k-th record: the loop
\* over i = 0, 1
dispatchOne(p, k) ==
    LET record == p.collisionRecords[k]
    IN  dispatchRole(dispatchRole(p, k, record.index0, record.index1),
                     k, record.index1, record.index0)

RECURSIVE recordsEach(_, _)

\* a mutant of recordsEach: the callbacks of a record are invoked before it is resolved
recordsEach_dispatchFirst(p, k) ==
    IF k > Len(p.collisionRecords) THEN p
    ELSE recordsEach(resolveOne(dispatchOne(p, k), k), k + 1)

\* the last loop of update, from the k-th record on
recordsEach(p, k) ==
    IF k > Len(p.collisionRecords) THEN p
    ELSE recordsEach(dispatchOne(resolveOne(p, k), k), k + 1)

\* update(dt) up to the sort: the integration and the refresh of the bounding boxes
update_refreshed(p, dt) == refreshEach(integrateEach(p, 1, dt), 1)

\* update(dt) from the sort on, with sortIndices = order as std::sort left it
update_swept(p, order) == recordsEach(sweepEach(clearLists(p), order, 1), 1)

---------------------------------------------------------------------------
(* The physics world, driven by the game (the_game.cpp) *)

\* the positions, sizes, masses, velocities and time steps the game calls with, in tenths
BuildingPositions == {<<0, 0>>}
CharacterPositions == {<<9, 0>>, <<19, 0>>, <<0, 12>>}
TriggerPositions == {<<9, 0>>}
StaticPositions == {<<0, 0>>, <<8, 0>>}
MoverPositions == {<<9, 0>>}
HalfExtents == <<5, 5>>
\* playerBodyDescription.mass and zombieBodyDescription.mass, chosen to divide the impulse
PlayerMass == 5
ZombieMass == 10
PlayerPositions == {<<0, 0>>}
ZombiePositions == {<<19, -10>>, <<9, 0>>}
TargetVelocities == {<<-2, 2>>}
Steps == {5}
\* triggerCollisionCallback, and the TheGame object given as callbackData
triggerCollisionCallback == 1
this == 1

\* updateVelocity(body, targetVelocity, acceleration, dt) for a target within reach:
\* glm::length(deltaV) <= acceleration * dt, compared by the squares
updateVelocity(body, targetVelocity, acceleration, dt) ==
    LET deltaV == Vsub(targetVelocity, body.velocity)
    IN  IF Dot(deltaV, deltaV) > (acceleration * dt) * (acceleration * dt)
        THEN body
        ELSE [body EXCEPT !.velocity = Vadd(body.velocity, deltaV)]

\* the depot building of TheGame's constructor, which runs once: a new entity with a node
\* below the root, a collider and a default (static) dynamic body
createBuilding(position, heightForDepth) ==
    LET index == EntityManager_create_result(World)
    IN  /\ ~crashed
        /\ \A k \in 1..Len(dynamics.components) : dynamics.components[k].mass # 0
        /\ ~ComponentManager_has(sceneGraph, index)
        /\ SetWorld([EntityManager_create(World) EXCEPT
                        !.sceneGraph =
                            SceneGraph_setHeightForDepth(
                                SceneGraph_setPosition(SceneGraph_create(sceneGraph, index, 0),
                                                       index, position),
                                index, heightForDepth),
                        !.colliders =
                            ComponentManager_create(colliders, index,
                                [DefaultCollider EXCEPT !.halfExtents = HalfExtents])])
        /\ dynamics' = ComponentManager_create(dynamics, index, DefaultDynamic)
        /\ returned' = returned \cup {index}
        /\ live' = live \cup {index}
        /\ call' = <<"EntityManager::create", index, <<>>>>
        /\ UNCHANGED <<crashed, misuse, sets, storeVars, collisionRecords, sortIndices,
                       intervals, trace, updates, boxes, game>>

\* TheGame::createCharacter, the character itself: a new entity with a node below the root,
\* a collider and a dynamic body with the description's mass and damping 0.1
createCharacter_body(position, mass) ==
    LET index == EntityManager_create_result(World)
    IN  /\ ~crashed
        /\ ~ComponentManager_has(sceneGraph, index)
        /\ SetWorld([EntityManager_create(World) EXCEPT
                        !.sceneGraph =
                            SceneGraph_setPosition(SceneGraph_create(sceneGraph, index, 0),
                                                   index, position),
                        !.colliders =
                            ComponentManager_create(colliders, index,
                                [DefaultCollider EXCEPT !.halfExtents = HalfExtents])])
        /\ dynamics' = ComponentManager_create(dynamics, index,
                           [DefaultDynamic EXCEPT !.mass = mass, !.damping = 1])
        /\ returned' = returned \cup {index}
        /\ live' = live \cup {index}
        /\ call' = <<"EntityManager::create", index, <<>>>>
        /\ UNCHANGED <<crashed, misuse, sets, storeVars, collisionRecords, sortIndices,
                       intervals, trace, updates, boxes, game>>

\* TheGame::createTrigger(parent, position, size, ...): a new entity with a node below
\* parent, a collider with the trigger callback and a trigger without condition that is
\* not active; no dynamic body
createTrigger(parent, position) ==
    LET index == EntityManager_create_result(World)
    IN  /\ ~crashed
        /\ parent \in live
        /\ Present(sceneGraph, parent)
        /\ ~ComponentManager_has(sceneGraph, index)
        /\ SetWorld([EntityManager_create(World) EXCEPT
                        !.sceneGraph =
                            SceneGraph_setPosition(SceneGraph_create(sceneGraph, index, parent),
                                                   index, position),
                        !.colliders =
                            ComponentManager_create(colliders, index,
                                [DefaultCollider EXCEPT
                                     !.halfExtents = HalfExtents,
                                     !.callback = triggerCollisionCallback,
                                     !.callbackData = this])])
        /\ returned' = returned \cup {index}
        /\ live' = live \cup {index}
        /\ call' = <<"EntityManager::create", index, <<>>>>
        /\ game' = [game EXCEPT !.triggers =
                        ComponentManager_create(game.triggers, index, DefaultTrigger)]
        /\ UNCHANGED <<crashed, misuse, sets, storeVars, dynamics, collisionRecords,
                       sortIndices, intervals, trace, updates, boxes>>

\* a static body as the constructor of TheGame makes one for a house: a new entity with a
\* node below the root, a collider and a default (static) dynamic body.  PhysicsWorld does
\* not keep static bodies apart: the position is the caller's.
createStaticBody(position, heightForDepth) ==
    LET index == EntityManager_create_result(World)
    IN  /\ ~crashed
        /\ ~ComponentManager_has(sceneGraph, index)
        /\ SetWorld([EntityManager_create(World) EXCEPT
                        !.sceneGraph =
                            SceneGraph_setHeightForDepth(
                                SceneGraph_setPosition(SceneGraph_create(sceneGraph, index, 0),
                                                       index, position),
                                index, heightForDepth),
                        !.colliders =
                            ComponentManager_create(colliders, index,
                                [DefaultCollider EXCEPT !.halfExtents = HalfExtents])])
        /\ dynamics' = ComponentManager_create(dynamics, index, DefaultDynamic)
        /\ returned' = returned \cup {index}
        /\ live' = live \cup {index}
        /\ call' = <<"EntityManager::create", index, <<>>>>
        /\ UNCHANGED <<crashed, misuse, sets, storeVars, collisionRecords, sortIndices,
                       intervals, trace, updates, boxes, game>>

\* updateVelocity(dynamics.get(e), targetVelocity, acceleration, dt), as the game calls it
\* for its characters before physicsWorld.update(dt)
UpdateVelocity(e, targetVelocity, acceleration, dt) ==
    /\ ~crashed
    /\ Present(dynamics, e)
    /\ ComponentManager_get(dynamics, e).mass # 0
    /\ sets' = sets + 1
    /\ dynamics' = ComponentManager_put(dynamics, e,
                       updateVelocity(ComponentManager_get(dynamics, e), targetVelocity,
                                      acceleration, dt))
    /\ UNCHANGED <<freeIndices, nextIndex, sceneGraph, colliders, crashed, returned, live,
                   call, misuse, storeVars, collisionRecords, sortIndices, intervals, trace,
                   updates, boxes, game>>

\* physicsWorld.update(dt)
PW_Update(dt) ==
    /\ ~crashed
    /\ \A k \in 1..Len(ComponentManager_indices(dynamics)) :
           dampingExact(ComponentManager_get(dynamics, ComponentManager_indices(dynamics)[k]), dt)
    /\ \E refreshed \in {update_refreshed(Physics, dt)} :
           \E order \in sortedOrders(refreshed.colliders) :
               \E p \in {update_swept(refreshed, order)} :
                   /\ sceneGraph' = p.sceneGraph
                   /\ colliders' = p.colliders
                   /\ dynamics' = p.dynamics
                   /\ collisionRecords' = p.collisionRecords
                   /\ sortIndices' = order
                   /\ intervals' = p.intervals
                   /\ trace' = p.trace
                   /\ game' = p.game
    /\ updates' = updates + 1
    /\ UNCHANGED <<freeIndices, nextIndex, crashed, returned, live, call, misuse, sets,
                   storeVars, boxes>>

---------------------------------------------------------------------------
(* The characters, their weapons and their health (the_game.cpp) *)

\* the descriptions TheGame's constructor fills in, in the model's units: the player's
\* health and weapon damage as they are, the zombie's damage at level 1.25, the zombie's
\* health among small values, and the places relative to the character
PlayerMaxHealth == 20
ZombieMaxHealths == {2, 4}
WeaponDamage == 2
ZombieWeaponDamage == 1
playerDiedCallback == 1
BodyHurtboxPosition == <<0, 5>>
HealthBarPosition == <<0, -6>>
HeroPositions == {<<16, 0>>}
HordePositions == {<<32, 0>>, <<32, 20>>}
HeroWeaponPositions == {<<8, 0>>}
HordeWeaponPositions == {<<-8, 0>>}
\* the frames taken
MaxFrames == 1

\* the entity manager with all the managers the model has of those TheGame registers
\*   t.freeIndices, t.nextIndex, t.sceneGraph, t.colliders, t.dynamics, t.game
TheGame ==
    [freeIndices |-> freeIndices, nextIndex |-> nextIndex, sceneGraph |-> sceneGraph,
     colliders |-> colliders, dynamics |-> dynamics, game |-> game]

SetTheGame(t) ==
    /\ SetWorld(t)
    /\ dynamics' = t.dynamics
    /\ game' = t.game

\* TheGame::addHealthComponent(index, maxHealth, onDied); the health bar has no collider,
\* its place -0.65 is taken as -0.6
addHealthComponent(t, index, maxHealth, onDied) ==
    LET healthBar == EntityManager_create_result(t)
        u == EntityManager_create(t)
    IN  [u EXCEPT
            !.game.healthComponents =
                ComponentManager_create(t.game.healthComponents, index,
                    [DefaultHealth EXCEPT !.max = maxHealth, !.value = maxHealth,
                                          !.onDied = onDied, !.healthBar = healthBar]),
            !.sceneGraph =
                SceneGraph_setPosition(SceneGraph_create(u.sceneGraph, healthBar, index),
                                       healthBar, HealthBarPosition)]

\* TheGame::createHurtbox(parent, owner, position, size, multiplier)
createHurtbox(t, parent, owner, position, multiplier) ==
    LET index == EntityManager_create_result(t)
        u == EntityManager_create(t)
    IN  [u EXCEPT
            !.sceneGraph =
                SceneGraph_setPosition(SceneGraph_create(u.sceneGraph, index, parent),
                                       index, position),
            !.game.hurtboxes =
                ComponentManager_create(t.game.hurtboxes, index,
                    [DefaultHurtbox EXCEPT !.multiplier = multiplier, !.owner = owner]),
            !.colliders =
                ComponentManager_create(u.colliders, index,
                    [DefaultCollider EXCEPT !.halfExtents = HalfExtents])]

\* TheGame::createWeapon(owner, description).  The arm is modelled apart
\* (createCharacter_shoulder, createCharacter_hand); here the weapon's node hangs below the
\* owner, position being the weapon's place relative to the owner.
createWeapon(t, owner, position, damage) ==
    LET index == EntityManager_create_result(t)
        u == EntityManager_create(t)
    IN  [u EXCEPT
            !.game.weapons =
                ComponentManager_create(t.game.weapons, index,
                    [DefaultWeapon EXCEPT !.owner = owner, !.damage = damage]),
            !.sceneGraph =
                SceneGraph_setPosition(SceneGraph_create(u.sceneGraph, index, owner),
                                       index, position),
            !.colliders =
                ComponentManager_create(u.colliders, index,
                    [DefaultCollider EXCEPT !.halfExtents = HalfExtents,
                                            !.callback = weaponCollisionCallback,
                                            !.callbackData = this])]

\* TheGame::createCharacter(position, description): the character with its collider, its
\* dynamic body, its health and, of its four hurtboxes, the one of the body
createCharacter(t, position, mass, maxHealth) ==
    LET index == EntityManager_create_result(t)
        u == EntityManager_create(t)
        made == [u EXCEPT
                    !.sceneGraph =
                        SceneGraph_setPosition(SceneGraph_create(u.sceneGraph, index, 0),
                                               index, position),
                    !.colliders =
                        ComponentManager_create(u.colliders, index,
                            [DefaultCollider EXCEPT !.halfExtents = HalfExtents]),
                    !.dynamics =
                        ComponentManager_create(u.dynamics, index,
                            [DefaultDynamic EXCEPT !.mass = mass, !.damping = 1])]
    IN  createHurtbox(addHealthComponent(made, index, maxHealth, 0),
                      index, index, BodyHurtboxPosition, 1)

\* TheGame::createPlayer(position), which the constructor calls once, after the city is
\* built; the money text is not modelled
createPlayer(position, weaponPosition) ==
    LET index == EntityManager_create_result(TheGame)
        character == createCharacter(TheGame, position, PlayerMass, PlayerMaxHealth)
        player == [character EXCEPT
                      !.game.players =
                          ComponentManager_create(character.game.players, index, DefaultPlayer)]
        armed == createWeapon(player, index, weaponPosition, WeaponDamage)
        health == ComponentManager_get(armed.game.healthComponents, index)
    IN  /\ ~crashed
        /\ game.players.components = <<>>
        /\ SetTheGame([armed EXCEPT !.game.healthComponents =
                          ComponentManager_put(armed.game.healthComponents, index,
                              [health EXCEPT !.onDied = playerDiedCallback])])
        /\ live' = live \cup {x \in 1..(armed.nextIndex - 1) :
                                  ComponentManager_has(armed.sceneGraph, x)}
        /\ returned' = returned \cup live'
        /\ call' = <<"TheGame::createPlayer", index, <<>>>>
        /\ UNCHANGED <<crashed, misuse, sets, storeVars, collisionRecords, sortIndices,
                       intervals, trace, updates, boxes>>

\* TheGame::createZombie(position), which the game calls while it runs; the Enemy
\* component is not modelled
createZombie(position, weaponPosition, maxHealth) ==
    LET index == EntityManager_create_result(TheGame)
        character == createCharacter(TheGame, position, ZombieMass, maxHealth)
        armed == createWeapon(character, index, weaponPosition, ZombieWeaponDamage)
    IN  /\ ~crashed
        /\ game.players.components # <<>>
        /\ SetTheGame(armed)
        /\ live' = live \cup {x \in 1..(armed.nextIndex - 1) :
                                  ComponentManager_has(armed.sceneGraph, x)}
        /\ returned' = returned \cup live'
        /\ call' = <<"TheGame::createZombie", index, <<>>>>
        /\ UNCHANGED <<crashed, misuse, sets, storeVars, collisionRecords, sortIndices,
                       intervals, trace, updates, boxes>>

\* TheGame::updateWeapons(dt): whether a weapon is sharp is what its animation says at the
\* time, here sharps; the arm it turns is modelled apart
UpdateWeapons(sharps) ==
    /\ ~crashed
    /\ game' = [game EXCEPT
                   !.weapons.components =
                       [k \in 1..Len(game.weapons.components) |->
                           [game.weapons.components[k] EXCEPT !.sharp = sharps[k]]],
                   !.frames.updateWeapons = @ + 1]
    /\ UNCHANGED <<storeVars, worldVars, dynamics, collisionRecords, sortIndices, intervals,
                   trace, updates, boxes>>

RECURSIVE updateHealthEach(_, _, _)

\* the first loop of updateHealth(dt), from the i-th health component on; the colours of
\* the health bar are not modelled
updateHealthEach(t, i, dt) ==
    IF i > Len(ComponentManager_indices(t.game.healthComponents)) THEN t
    ELSE LET index == ComponentManager_indices(t.game.healthComponents)[i]
             health == [ComponentManager_get(t.game.healthComponents, index)
                           EXCEPT !.stateTimer = @ + dt]
             damaged == IF health.takingDamage
                        THEN [health EXCEPT !.state = "Invincible", !.stateTimer = 0,
                                            !.takingDamage = FALSE]
                        ELSE health
             timed == IF damaged.state = "Invincible" /\ damaged.stateTimer >= invincibleTime
                      THEN [damaged EXCEPT !.state = "Normal", !.stateTimer = 0]
                      ELSE damaged
         IN  IF health.value <= 0
             THEN updateHealthEach(
                      [t EXCEPT !.game.healthComponents =
                                    ComponentManager_put(@, index, health),
                                !.game.died = Append(@, index)],
                      i + 1, dt)
             ELSE updateHealthEach(
                      [t EXCEPT !.game.healthComponents =
                                    ComponentManager_put(@, index, timed)],
                      i + 1, dt)

RECURSIVE destroyRest(_, _, _)

\* EntityManager::destroy for the identifiers of log from the i-th on, in the managers
\* registered besides the scene graph and the colliders
destroyRest(t, log, i) ==
    IF i > Len(log) THEN t
    ELSE LET index == log[i]
             gone(m) == IF ComponentManager_has(m, index)
                        THEN ComponentManager_destroy(m, index) ELSE m
         IN  destroyRest(
                 [t EXCEPT !.dynamics = gone(t.dynamics),
                           !.game.weapons = gone(t.game.weapons),
                           !.game.hurtboxes = gone(t.game.hurtboxes),
                           !.game.healthComponents = gone(t.game.healthComponents),
                           !.game.players = gone(t.game.players),
                           !.game.triggers = gone(t.game.triggers),
                           !.game.deliveries = gone(t.game.deliveries)],
                 log, i + 1)

RECURSIVE updateHealthDied(_, _, _)

\* the second loop of updateHealth(dt), from the i-th of died on.  Of onPlayerDied only
\* isGameOver is kept.
\*   d.em, d.raw, d.log, d.crashed   as destroyHierarchy has them
updateHealthDied(d, i, checked) ==
    IF d.crashed \/ i > Len(d.em.game.died) THEN d
    ELSE LET index == d.em.game.died[i]
             health == ComponentManager_get(d.em.game.healthComponents, index)
             told == IF health.onDied # 0
                     THEN [d EXCEPT !.em.game.isGameOver = TRUE]
                     ELSE d
             destroyed == destroyHierarchy([told EXCEPT !.log = <<>>], index, checked)
         IN  updateHealthDied(
                 [destroyed EXCEPT
                     !.em = destroyRest(destroyed.em, destroyed.log, 1),
                     !.log = d.log \o destroyed.log],
                 i + 1, checked)

\* TheGame::updateHealth(dt)
UpdateHealth(dt, checked) ==
    LET looped == updateHealthEach([TheGame EXCEPT !.game.died = <<>>], 1, dt)
        d == updateHealthDied(
                 [em |-> [looped EXCEPT !.game.looped = layout(looped),
                                        !.game.frames.updateHealth = @ + 1],
                  raw |-> [x \in 0..nextIndex |-> <<>>],
                  log |-> <<>>, crashed |-> FALSE], 1, checked)
    IN  /\ ~crashed
        /\ SetTheGame(d.em)
        /\ crashed' = d.crashed
        /\ live' = live \ {d.log[i] : i \in 1..Len(d.log)}
        /\ call' = <<"TheGame::updateHealth", 0, d.log>>
        /\ UNCHANGED <<returned, misuse, sets, storeVars, collisionRecords, sortIndices,
                       intervals, trace, updates, boxes>>

---------------------------------------------------------------------------
(* One ComponentManager<T>, T a number, driven by its callers *)

\* everything as constructed
Init ==
    /\ cm = EmptyManager
    /\ cmLast = [e \in Entities |-> "none"]
    /\ cmMisuse = FALSE
    /\ WorldInit
    /\ dynamics = EmptyManager
    /\ collisionRecords = <<>>
    /\ sortIndices = <<>>
    /\ intervals = <<>>
    /\ trace = <<>>
    /\ updates = 0
    /\ boxes = <<>>
    /\ game = GameInit

\* create(e) for an identifier that has no component
StoreCreate(e) ==
    /\ ~ComponentManager_has(cm, e)
    /\ Len(cm.components) < MaxDense
    /\ cm' = ComponentManager_create(cm, e, 0)
    /\ cmLast' = [cmLast EXCEPT ![e] = "create"]
    /\ UNCHANGED <<cmMisuse, worldVars, physicsVars>>

\* destroy(e) for an identifier that has a component
StoreDestroy(e) ==
    /\ ComponentManager_has(cm, e)
    /\ destroyDefined(cm, e)
    /\ cm' = ComponentManager_destroy(cm, e)
    /\ cmLast' = [cmLast EXCEPT ![e] = "destroy"]
    /\ UNCHANGED <<cmMisuse, worldVars, physicsVars>>

\* get(e) = x
StoreWrite(e, x) ==
    /\ ComponentManager_has(cm, e)
    /\ getDefined(cm, e)
    /\ cm' = ComponentManager_put(cm, e, x)
    /\ UNCHANGED <<cmLast, cmMisuse, worldVars, physicsVars>>

\* create(e) for an identifier that already has a component
StoreCreateAgain(e) ==
    /\ ComponentManager_has(cm, e)
    /\ Len(cm.components) < MaxDense
    /\ cm' = ComponentManager_create(cm, e, 0)
    /\ cmLast' = [cmLast EXCEPT ![e] = "create"]
    /\ cmMisuse' = TRUE
    /\ UNCHANGED <<worldVars, physicsVars>>

\* destroy(e) for an identifier that has no component, where the code's accesses are
\* all in range (e below packedIndices.size(), components not empty)
StoreDestroyAbsent(e) ==
    /\ ~ComponentManager_has(cm, e)
    /\ destroyDefined(cm, e)
    /\ cm' = ComponentManager_destroy(cm, e)
    /\ cmLast' = [cmLast EXCEPT ![e] = "destroy"]
    /\ cmMisuse' = TRUE
    /\ UNCHANGED <<worldVars, physicsVars>>

\* callers that create only absent and destroy only present identifiers
StoreNext ==
    \/ \E e \in Entities : StoreCreate(e)
    \/ \E e \in Entities : StoreDestroy(e)
    \/ \E e \in Entities, x \in Values : StoreWrite(e, x)

SpecStore == Init /\ [][StoreNext]_vars

\* any sequence of create and destroy calls (the components keep their initial value)
StoreAnyNext ==
    \/ \E e \in Entities : StoreCreate(e)
    \/ \E e \in Entities : StoreDestroy(e)
    \/ \E e \in Entities : StoreCreateAgain(e)
    \/ \E e \in Entities : StoreDestroyAbsent(e)

SpecStoreAnyCalls == Init /\ [][StoreAnyNext]_vars

---------------------------------------------------------------------------
(* Specifications of the entity manager with the scene graph and the colliders *)

\* the entity manager alone: identifiers handed out, returned, and returned twice
IdsNext ==
    \/ EM_Create /\ UNCHANGED <<storeVars, physicsVars>>
    \/ \E e \in Ids : EM_Destroy(e) /\ UNCHANGED <<storeVars, physicsVars>>
    \/ \E e \in Ids : EM_DestroyAgain(e) /\ UNCHANGED <<storeVars, physicsVars>>

SpecIds == Init /\ [][IdsNext]_vars

\* entities, their nodes (linked under any node) and colliders; whole-entity destruction
EntitiesNext ==
    \/ EM_Create /\ UNCHANGED <<storeVars, physicsVars>>
    \/ \E e \in Ids : EM_Destroy(e) /\ UNCHANGED <<storeVars, physicsVars>>
    \/ \E e, p \in Ids : SG_Create(e, p) /\ UNCHANGED <<storeVars, physicsVars>>
    \/ \E e \in Ids : Colliders_Create(e) /\ UNCHANGED <<storeVars, physicsVars>>
    \/ \E e \in Ids, x \in Values : Colliders_Write(e, x) /\ UNCHANGED <<storeVars, physicsVars>>

SpecEntities == Init /\ [][EntitiesNext]_vars

\* the hierarchy: create, destroy, setParent and destroyHierarchy
HierarchyNext ==
    \/ EM_Create /\ UNCHANGED <<storeVars, physicsVars>>
    \/ \E e \in Ids : EM_Destroy(e) /\ UNCHANGED <<storeVars, physicsVars>>
    \/ \E e, p \in Ids : SG_Create(e, p) /\ UNCHANGED <<storeVars, physicsVars>>
    \/ \E e, p \in Ids : SG_SetParent(e, p) /\ UNCHANGED <<sets, storeVars, physicsVars>>
    \/ \E e \in Ids, checked \in BOOLEAN : SG_DestroyHierarchy(e, checked) /\ UNCHANGED <<storeVars, physicsVars>>
    \/ \E e \in Ids : Colliders_Create(e) /\ UNCHANGED <<storeVars, physicsVars>>

SpecHierarchy == Init /\ [][HierarchyNext]_vars

---------------------------------------------------------------------------
\* the transforms: nodes are created and re-parented, their local transforms set and
\* their world transforms read
TransformsNext ==
    \/ \E p \in Ids : NewNode(p) /\ UNCHANGED <<storeVars, physicsVars>>
    \/ \E e, p \in Ids :
          SG_SetParent(e, p) /\ sets < MaxSets /\ sets' = sets + 1 /\ UNCHANGED <<storeVars, physicsVars>>
    \/ \E e \in Ids, v \in Positions : SG_SetPosition(e, v) /\ UNCHANGED <<storeVars, physicsVars>>
    \/ \E e \in Ids, v \in Rotations : SG_SetRotation(e, v) /\ UNCHANGED <<storeVars, physicsVars>>
    \/ \E e \in Ids, v \in Depths : SG_SetDepth(e, v) /\ UNCHANGED <<storeVars, physicsVars>>
    \/ \E e \in Ids, v \in Heights : SG_SetHeightForDepth(e, v) /\ UNCHANGED <<storeVars, physicsVars>>
    \/ \E e \in Ids : SG_GetWorldTransform(e) /\ UNCHANGED <<storeVars, physicsVars>>

SpecTransforms == Init /\ [][TransformsNext]_vars

\* the dirty flags: nodes are created, re-parented and moved, and their world transforms
\* read
DirtyNext ==
    \/ \E p \in Ids : NewNode(p) /\ UNCHANGED <<storeVars, physicsVars>>
    \/ \E e, p \in Ids :
          SG_SetParent(e, p) /\ sets < MaxSets /\ sets' = sets + 1 /\ UNCHANGED <<storeVars, physicsVars>>
    \/ \E e \in Ids, v \in Positions : SG_SetPosition(e, v) /\ UNCHANGED <<storeVars, physicsVars>>
    \/ \E e \in Ids : SG_GetWorldTransform(e) /\ UNCHANGED <<storeVars, physicsVars>>

SpecDirty == Init /\ [][DirtyNext]_vars

\* the hierarchy as create and setParent build it, and recurse called on its nodes
RecurseNext ==
    \/ \E p \in Ids : NewNode(p) /\ UNCHANGED <<storeVars, physicsVars>>
    \/ \E p \in Ids, v \in Positions, h \in {0} \cup Heights :
          createSprite(p, v, h) /\ UNCHANGED <<storeVars, physicsVars>>
    \/ \E e, p \in Ids :
          SG_SetParent(e, p) /\ sets < MaxSets /\ sets' = sets + 1 /\ UNCHANGED <<storeVars, physicsVars>>
    \/ \E e \in Ids : SG_Recurse(e) /\ UNCHANGED <<storeVars, physicsVars>>

SpecRecurse == Init /\ [][RecurseNext]_vars

\* the scenes the game's factories build, and their world transforms read
ComposeNext ==
    \/ \E p \in Ids, v \in Positions, h \in {0} \cup Heights :
          createSprite(p, v, h) /\ UNCHANGED <<storeVars, physicsVars>>
    \/ \E p \in Ids, v \in Positions, r \in Rotations :
          createCharacter_hand(p, v, r) /\ UNCHANGED <<storeVars, physicsVars>>
    \/ \E p \in Ids, v \in Positions, d \in Depths :
          createCharacter_shoulder(p, v, d) /\ UNCHANGED <<storeVars, physicsVars>>
    \/ \E e \in Ids : SG_GetWorldTransform(e) /\ UNCHANGED <<storeVars, physicsVars>>

SpecCompose == Init /\ [][ComposeNext]_vars

---------------------------------------------------------------------------
(* Specifications of the physics world *)

\* the physics world with bodies at rest: what update detects and whom it calls
DetectNext ==
    \/ /\ nextIndex <= MaxBodies
       /\ \/ \E position \in BuildingPositions, heightForDepth \in Heights :
                 createBuilding(position, heightForDepth)
          \/ \E position \in CharacterPositions : createCharacter_body(position, ZombieMass)
          \/ \E parent \in 1..MaxBodies, position \in TriggerPositions :
                 createTrigger(parent, position)
    \/ updates < MaxUpdates /\ \E dt \in Steps : PW_Update(dt)

SpecDetect == Init /\ [][DetectNext]_vars

\* the physics world with moving bodies: how update resolves.  TheGame's constructor
\* creates the depot building and the player once; zombies are spawned all along.
ResolveNext ==
    \/ /\ nextIndex <= MaxMoving
       /\ \/ \E position \in BuildingPositions, heightForDepth \in Heights :
                 createBuilding(position, heightForDepth)
          \/ /\ \A k \in 1..Len(dynamics.components) :
                    dynamics.components[k].mass # PlayerMass
             /\ \E position \in PlayerPositions : createCharacter_body(position, PlayerMass)
          \/ \E position \in ZombiePositions : createCharacter_body(position, ZombieMass)
    \/ /\ sets < MaxPushes
       /\ \E e \in 1..MaxMoving, targetVelocity \in TargetVelocities, dt \in Steps :
              UpdateVelocity(e, targetVelocity, 10, dt)
    \/ updates < MaxSteps /\ \E dt \in Steps : PW_Update(dt)

SpecResolve == Init /\ [][ResolveNext]_vars

\* the physics world with characters that carry triggers and are set moving between the
\* updates: what the integration does to a body and to what hangs below it
IntegrateNext ==
    \/ /\ nextIndex <= MaxMoving
       /\ \/ \E position \in BuildingPositions, heightForDepth \in Heights :
                 createBuilding(position, heightForDepth)
          \/ \E position \in MoverPositions : createCharacter_body(position, ZombieMass)
          \/ \E parent \in 1..MaxMoving, position \in TriggerPositions :
                 createTrigger(parent, position)
    \/ /\ sets < MaxPushes
       /\ \E e \in 1..MaxMoving, targetVelocity \in TargetVelocities, dt \in Steps :
              UpdateVelocity(e, targetVelocity, 10, dt)
    \/ updates < MaxUpdates /\ \E dt \in Steps : PW_Update(dt)

SpecIntegrate == Init /\ [][IntegrateNext]_vars

\* the physics world with static bodies wherever the caller puts them, and triggers: the
\* records update does not resolve
InertNext ==
    \/ /\ nextIndex <= MaxBodies
       /\ \/ \E position \in StaticPositions, heightForDepth \in Heights :
                 createStaticBody(position, heightForDepth)
          \/ \E parent \in 1..MaxBodies, position \in TriggerPositions :
                 createTrigger(parent, position)
    \/ updates < MaxUpdates /\ \E dt \in Steps : PW_Update(dt)

SpecInert == Init /\ [][InertNext]_vars

\* the game frame by frame: the city and the player as the constructor makes them, between
\* the frames a zombie when none is alive, and in a frame updateWeapons,
\* physicsWorld.update and updateHealth in this order
GameNext ==
    \/ /\ game.frames.updateWeapons = updates
       /\ game.frames.updateHealth = updates
       /\ \/ /\ game.players.components = <<>>
             /\ \/ \E position \in BuildingPositions, heightForDepth \in Heights :
                       createBuilding(position, heightForDepth)
                \/ /\ game.triggers.components = <<>>
                   /\ \E parent \in live, position \in TriggerPositions :
                          createTrigger(parent, position)
                \/ \E position \in HeroPositions, weaponPosition \in HeroWeaponPositions :
                       createPlayer(position, weaponPosition)
          \/ /\ \A k \in 1..Len(game.healthComponents.componentIndices) :
                    ComponentManager_has(game.players, game.healthComponents.componentIndices[k])
             /\ \E position \in HordePositions, weaponPosition \in HordeWeaponPositions,
                   maxHealth \in ZombieMaxHealths :
                    createZombie(position, weaponPosition, maxHealth)
          \/ /\ updates < MaxFrames
             /\ \E sharps \in [1..Len(game.weapons.components) -> BOOLEAN] :
                    UpdateWeapons(sharps)
    \/ /\ game.frames.updateWeapons = updates + 1
       /\ \E dt \in Steps : PW_Update(dt)
    \/ /\ game.frames.updateHealth < updates
       /\ \E dt \in Steps, checked \in BOOLEAN : UpdateHealth(dt, checked)

SpecGame == Init /\ [][GameNext]_vars

BoxesNext ==
    \E r0, r1 \in BoxFrames, e0, e1 \in BoxExtents, p1 \in BoxCentres :
        CollideBoxes(r0, e0, r1, p1, e1)

SpecBoxes == Init /\ [][BoxesNext]_vars

---------------------------------------------------------------------------
(* Claims about the component store *)

DenseSparseAgree ==
    /\ Len(cm.components) = Len(cm.componentIndices)
    /\ \A i \in 0..(Len(cm.componentIndices) - 1) :
          /\ At(cm.componentIndices, i) < Len(cm.packedIndices)
          /\ At(cm.packedIndices, At(cm.componentIndices, i)) = i

\* C1 as stated: after any sequence of create(e) and destroy(e) calls the dense and sparse
\* arrays agree (same length, packedIndices[componentIndices[i]] = i for every dense slot i).
C1_AnySequence == DenseSparseAgree

\* C1 amended: the arrays agree after any sequence of calls in which create is applied only
\* to identifiers without a component and destroy only to identifiers with one.
C1_DenseSparseAgree == ~cmMisuse => DenseSparseAgree

\* a store that has been through a swap-remove: two components left, one of them moved
C1_Witness ==
    /\ ~cmMisuse
    /\ Len(cm.components) = 2
    /\ \E e \in Entities : cmLast[e] = "destroy" /\ e < At(cm.componentIndices, 1)
    /\ At(cm.componentIndices, 0) > At(cm.componentIndices, 1)

HasReflectsLastCall ==
    \A e \in Entities :
        /\ ComponentManager_has(cm, e) <=> cmLast[e] = "create"
        /\ cmLast[e] = "create" => Count(ComponentManager_indices(cm), e) = 1

\* C2 as stated: after any sequence of create/destroy calls, has(e) is true exactly when the
\* last call applied to e was create(e), and then e occurs exactly once in indices().
C2_AnySequence == HasReflectsLastCall

\* C2 amended: the same, after any sequence of calls in which create is applied only to
\* identifiers without a component and destroy only to identifiers with one.
C2_HasReflectsLastCall == ~cmMisuse => HasReflectsLastCall

\* one identifier created, destroyed and created again, one destroyed, one never passed
C2_Witness ==
    /\ ~cmMisuse
    /\ \E a, b, c \in Entities :
          /\ cmLast[a] = "create" /\ cmLast[b] = "destroy" /\ cmLast[c] = "none"
          /\ ComponentManager_has(cm, a) /\ ~ComponentManager_has(cm, b)
          /\ c >= Len(cm.packedIndices)

\* C3: destroy(e) of a present e in a store of n components leaves n-1 components; every
\* other identifier that had a component still has one, and get returns for it the value it
\* returned before (also for the identifier whose component was moved into e's slot).
\* A step after which a present e is absent is a destroy(e).
C3_DestroyFrame ==
    [][\A e \in Entities :
          (ComponentManager_has(cm, e) /\ ~ComponentManager_has(cm', e)) =>
              /\ Len(cm'.components) = Len(cm.components) - 1
              /\ Len(cm'.componentIndices) = Len(cm.componentIndices) - 1
              /\ \A x \in Entities \ {e} :
                    ComponentManager_has(cm, x) =>
                        /\ ComponentManager_has(cm', x)
                        /\ getDefined(cm', x)
                        /\ ComponentManager_get(cm', x) = ComponentManager_get(cm, x)]_vars

\* identifier 0 of <<0, 1, 2>> has been destroyed: the component of 2 was moved into its
\* slot, and the two components left hold different values
C3_Witness ==
    /\ cmLast[0] = "destroy"
    /\ ComponentManager_indices(cm) = <<2, 1>>
    /\ ComponentManager_get(cm, 2) # ComponentManager_get(cm, 1)

---------------------------------------------------------------------------
(* Claims about the entity manager *)

\* v with one occurrence of x taken out is u
RemovedOne(v, u, x) ==
    \E k \in 1..Len(v) :
        /\ v[k] = x
        /\ u = SubSeq(v, 1, k - 1) \o SubSeq(v, k + 1, Len(v))

\* the same elements, as often, except that x does not occur in u
SameExcept(v, u, x) ==
    /\ Count(u, x) = 0
    /\ \A y \in Ids \ {x} : Count(u, y) = Count(v, y)

\* C4: EntityManager::create never returns 0; with a non-empty free list it returns an
\* identifier taken from the free list, removing it from the list; with an empty free list it
\* returns an identifier strictly greater than every identifier it returned before.
C4_CreateResult ==
    [][\A r \in Ids :
          call' = <<"EntityManager::create", r, <<>>>> =>
              /\ r # 0
              /\ freeIndices # <<>> =>
                    /\ RemovedOne(freeIndices, freeIndices', r)
                    /\ nextIndex' = nextIndex
              /\ freeIndices = <<>> =>
                    /\ \A x \in returned : r > x
                    /\ freeIndices' = <<>>]_vars

\* create has just handed out again an identifier that was returned to the free list, while
\* a larger identifier is in use
C4_Witness ==
    /\ call[1] = "EntityManager::create"
    /\ call[2] < nextIndex - 1
    /\ call[2] \in live
    /\ freeIndices = <<>>

\* the components of every identifier other than e that had one are present and unchanged
OthersKept(m, n, e) ==
    \A x \in Ids \ {e} :
        ComponentManager_has(m, x) =>
            /\ ComponentManager_has(n, x)
            /\ getDefined(n, x)
            /\ ComponentManager_get(n, x) = ComponentManager_get(m, x)

\* C5 as stated: after EntityManager::destroy(e), has(e) is false in every registered
\* manager, the components of every other entity in every manager are unchanged, e has been
\* appended to the free list, and managers in which e had no component are not touched.
C5_AsStated ==
    [][\A e \in Ids :
          (call' # call /\ call' = <<"EntityManager::destroy", e, <<e>>>>) =>
              /\ ~ComponentManager_has(sceneGraph', e)
              /\ ~ComponentManager_has(colliders', e)
              /\ freeIndices' = Append(freeIndices, e)
              /\ ~ComponentManager_has(sceneGraph, e) => sceneGraph' = sceneGraph
              /\ ~ComponentManager_has(colliders, e) => colliders' = colliders
              /\ OthersKept(sceneGraph, sceneGraph', e)
              /\ OthersKept(colliders, colliders', e)]_vars

\* the nodes of every identifier other than e that had one are present and unchanged,
\* except that the child list of e's parent has lost e
NodesKeptButParent(sg, sg2, e) ==
    \A x \in Ids \ {e} :
        ComponentManager_has(sg, x) =>
            /\ ComponentManager_has(sg2, x)
            /\ getDefined(sg2, x)
            /\ IF ComponentManager_has(sg, e) /\ SceneGraph_get(sg, e).parent = x
               THEN /\ [SceneGraph_get(sg2, x) EXCEPT !.children = <<>>]
                         = [SceneGraph_get(sg, x) EXCEPT !.children = <<>>]
                    /\ SameExcept(SceneGraph_get(sg, x).children,
                                  SceneGraph_get(sg2, x).children, e)
               ELSE SceneGraph_get(sg2, x) = SceneGraph_get(sg, x)

\* C5 amended: after EntityManager::destroy(e), has(e) is false in every registered manager,
\* e has been appended to the free list, managers in which e had no component are not
\* touched, and the components of every other entity in every manager are unchanged except
\* that, in the scene graph, the node of e's parent no longer lists e among its children.
C5_DestroyEntity ==
    [][\A e \in Ids :
          (call' # call /\ call' = <<"EntityManager::destroy", e, <<e>>>>) =>
              /\ ~ComponentManager_has(sceneGraph', e)
              /\ ~ComponentManager_has(colliders', e)
              /\ freeIndices' = Append(freeIndices, e)
              /\ ~ComponentManager_has(sceneGraph, e) => sceneGraph' = sceneGraph
              /\ ~ComponentManager_has(colliders, e) => colliders' = colliders
              /\ NodesKeptButParent(sceneGraph, sceneGraph', e)
              /\ OthersKept(colliders, colliders', e)]_vars

\* an entity that had a node and a collider has just been destroyed, while another entity
\* keeps its node and a collider that was written to
C5_Witness ==
    /\ call[1] = "EntityManager::destroy"
    /\ call[2] < Len(sceneGraph.packedIndices)
    /\ call[2] < Len(colliders.packedIndices)
    /\ \E x \in Ids \ {call[2]} :
          /\ Present(sceneGraph, x) /\ x # 0
          /\ Present(colliders, x)
          /\ ComponentManager_get(colliders, x) # DefaultCollider

---------------------------------------------------------------------------
(* Claims about the hierarchy *)

ParentsAndChildrenAgree ==
    \A c \in Ids \ {0} :
        ComponentManager_has(sceneGraph, c) =>
            /\ Present(sceneGraph, c)
            /\ Present(sceneGraph, SceneGraph_get(sceneGraph, c).parent)
            /\ \A p \in Ids :
                  Present(sceneGraph, p) =>
                      Count(SceneGraph_get(sceneGraph, p).children, c)
                          = IF SceneGraph_get(sceneGraph, c).parent = p THEN 1 ELSE 0

\* C6 as stated: in every state reachable through create, destroy, setParent and
\* destroyHierarchy (setParent never asked to form a cycle), for every live node c other
\* than the root and every live node p, c occurs in p's child list iff c.parent = p, it
\* occurs there exactly once, and c.parent is a live node.
C6_AsStated == ParentsAndChildrenAgree

\* C6 amended: the same, in every state reachable through create, setParent,
\* destroyHierarchy and destroy of nodes that have no children.
C6_ParentsAndChildrenAgree == ~misuse => ParentsAndChildrenAgree

\* destroyHierarchy has just removed a node with its child and went on to the end; the
\* root is left with itself as its only child
C6_Witness ==
    /\ ~misuse
    /\ ~crashed
    /\ call[1] = "SceneGraph::destroyHierarchy"
    /\ Len(call[3]) >= 2
    /\ Present(sceneGraph, 0)
    /\ SceneGraph_get(sceneGraph, 0).children = <<0>>

\* the nodes at or below e
Subtree(sg, e) == {x \in Ids : Present(sg, x) /\ Within(sg, x, e)}

Position(log, x) == CHOOSE k \in 1..Len(log) : log[k] = x

\* C9: for a live node e other than the root, destroyHierarchy(e) destroys every descendant
\* before its own parent and e last; afterwards no node of the subtree has a scene-graph node
\* or a collider, every identifier of the subtree has been returned to the free list exactly
\* once, e is no longer in its former parent's child list, and the nodes outside the subtree
\* are unchanged.
C9_DestroyHierarchy ==
    [][\A e \in Ids :
          (/\ ~misuse
           /\ call' # call
           /\ call'[1] = "SceneGraph::destroyHierarchy"
           /\ call'[2] = e) =>
              LET log == call'[3]
                  sub == Subtree(sceneGraph, e)
                  parent == SceneGraph_get(sceneGraph, e).parent
              IN  /\ ~crashed'
                  /\ {log[k] : k \in 1..Len(log)} = sub
                  /\ Len(log) = Cardinality(sub)
                  /\ log[Len(log)] = e
                  /\ \A x, y \in sub :
                        (x # y /\ Within(sceneGraph, y, x)) => Position(log, y) < Position(log, x)
                  /\ \A x \in sub :
                        ~ComponentManager_has(sceneGraph', x) /\ ~ComponentManager_has(colliders', x)
                  /\ freeIndices' = freeIndices \o log
                  /\ Count(SceneGraph_get(sceneGraph', parent).children, e) = 0
                  /\ \A x \in Ids \ sub :
                        /\ ComponentManager_has(colliders, x) =>
                              /\ Present(colliders', x)
                              /\ ComponentManager_get(colliders', x) = ComponentManager_get(colliders, x)
                        /\ ComponentManager_has(sceneGraph, x) =>
                              /\ Present(sceneGraph', x)
                              /\ IF x = parent
                                 THEN /\ [SceneGraph_get(sceneGraph', x) EXCEPT !.children = <<>>]
                                           = [SceneGraph_get(sceneGraph, x) EXCEPT !.children = <<>>]
                                      /\ SameExcept(SceneGraph_get(sceneGraph, x).children,
                                                    SceneGraph_get(sceneGraph', x).children, e)
                                 ELSE SceneGraph_get(sceneGraph', x) = SceneGraph_get(sceneGraph, x)]_vars

---------------------------------------------------------------------------
(* Claims about the transforms *)

RECURSIVE Scratch(_, _)
\* the world transform of index composed from the current local transforms along its parent
\* chain, no cached world transform and no dirty flag read
Scratch(sg, index) ==
    LET node == SceneGraph_get(sg, index)
    IN  IF node.parent = index THEN node.local
        ELSE composeWorld(node, Scratch(sg, node.parent))

\* C7: after any sequence of create, setParent, setPosition, setRotation, setDepth,
\* setHeightForDepth and getWorldTransform on an acyclic hierarchy, getWorldTransform(e)
\* returns for every live node e the transform composed from scratch from the current local
\* transforms along e's parent chain; a cached value that a later change to e or to an
\* ancestor made stale is never returned.
C7_WorldFromScratch ==
    \A e \in Ids :
        Rooted(sceneGraph, e, MaxId + 1) =>
            getWorldTransform_result(sceneGraph, e) = Scratch(sceneGraph, e)

\* a node that was never given a local transform holds a world transform that was computed
\* and cached, and that a change above it has made stale
C7_Witness ==
    \E e \in Ids \ {0} :
        /\ Rooted(sceneGraph, e, MaxId + 1)
        /\ SceneGraph_get(sceneGraph, e).local = DefaultTransform
        /\ SceneGraph_get(sceneGraph, e).world # DefaultTransform
        /\ SceneGraph_get(sceneGraph, e).world # Scratch(sceneGraph, e)
        /\ getWorldTransform_result(sceneGraph, e) = Scratch(sceneGraph, e)

\* C8: in every reachable state of the scene graph, whenever a node is dirty every one of
\* its descendants is dirty.
C8_DirtyBelowDirty ==
    \A e, d \in Ids :
        (/\ Present(sceneGraph, e)
         /\ Present(sceneGraph, d)
         /\ Within(sceneGraph, d, e)
         /\ SceneGraph_get(sceneGraph, e).dirty) => SceneGraph_get(sceneGraph, d).dirty

\* a node other than the root is dirty, and so is a child of it whose world transform had
\* been computed
C8_Witness ==
    \E e, d \in Ids \ {0} :
        /\ d # e
        /\ Present(sceneGraph, e)
        /\ Present(sceneGraph, d)
        /\ SceneGraph_get(sceneGraph, d).parent = e
        /\ SceneGraph_get(sceneGraph, e).dirty
        /\ SceneGraph_get(sceneGraph, d).dirty
        /\ SceneGraph_get(sceneGraph, d).world # DefaultTransform

\* rotate(v, r) of the composition rule, r in quarter turns
rotate(v, r) == <<Cos(r) * v[1] - Sin(r) * v[2], Sin(r) * v[1] + Cos(r) * v[2]>>

\* the chain root -> a -> b with a at (1,0), not rotated, and b at (0,1), rotated by a quarter
\* turn
ExampleChain(a, b) ==
    /\ a # 0 /\ b # 0 /\ a # b
    /\ Present(sceneGraph, a)
    /\ Present(sceneGraph, b)
    /\ SceneGraph_get(sceneGraph, 0).local = DefaultTransform
    /\ SceneGraph_get(sceneGraph, a).parent = 0
    /\ SceneGraph_get(sceneGraph, b).parent = a
    /\ SceneGraph_get(sceneGraph, a).local.position = <<1, 0>>
    /\ SceneGraph_get(sceneGraph, a).local.rotation = 0
    /\ SceneGraph_get(sceneGraph, b).local.position = <<0, 1>>
    /\ SceneGraph_get(sceneGraph, b).local.rotation = 1

ExampleHolds ==
    \A a, b \in Ids :
        ExampleChain(a, b) =>
            /\ getWorldTransform_result(sceneGraph, b).position = <<1, 1>>
            /\ getWorldTransform_result(sceneGraph, b).rotation = 1

\* C10 as stated: for a node whose parent is not itself, getWorldTransform computes
\* world.position = P.position + rotate(L.position, P.rotation), world.rotation =
\* P.rotation + L.rotation and world.depth = P.depth + L.depth from the parent's world
\* transform P and the node's local transform L; and the example chain.
C10_AsStated ==
    /\ \A e \in Ids :
          (Rooted(sceneGraph, e, MaxId + 1) /\ SceneGraph_get(sceneGraph, e).parent # e) =>
              LET P == getWorldTransform_result(sceneGraph, SceneGraph_get(sceneGraph, e).parent)
                  L == SceneGraph_get(sceneGraph, e).local
                  world == getWorldTransform_result(sceneGraph, e)
              IN  /\ world.position = <<P.position[1] + rotate(L.position, P.rotation)[1],
                                        P.position[2] + rotate(L.position, P.rotation)[2]>>
                  /\ world.rotation = P.rotation + L.rotation
                  /\ world.depth = P.depth + L.depth
    /\ ExampleHolds

\* C10: for a node whose parent is not itself, getWorldTransform computes world.position =
\* P.position + rotate(L.position, P.rotation) and world.rotation = P.rotation + L.rotation
\* from the parent's world transform P and the node's local transform L; world.depth =
\* P.depth + L.depth when the parent is not the root, and P.depth + L.depth -
\* (L.position.y - heightForDepth) when the parent is the root; and the example chain.
C10_WorldFromParent ==
    /\ \A e \in Ids :
          (Rooted(sceneGraph, e, MaxId + 1) /\ SceneGraph_get(sceneGraph, e).parent # e) =>
              LET node == SceneGraph_get(sceneGraph, e)
                  P == getWorldTransform_result(sceneGraph, node.parent)
                  L == node.local
                  world == getWorldTransform_result(sceneGraph, e)
              IN  /\ world.position = <<P.position[1] + rotate(L.position, P.rotation)[1],
                                        P.position[2] + rotate(L.position, P.rotation)[2]>>
                  /\ world.rotation = P.rotation + L.rotation
                  /\ node.parent # 0 => world.depth = P.depth + L.depth
                  /\ node.parent = 0 =>
                        world.depth = (P.depth + L.depth) - (L.position[2] - node.heightForDepth)
    /\ ExampleHolds

\* the example chain has been built and the world transform of its last node computed
C10_Witness ==
    \E a, b \in Ids :
        /\ ExampleChain(a, b)
        /\ ~SceneGraph_get(sceneGraph, b).dirty
        /\ SceneGraph_get(sceneGraph, b).world.position = <<1, 1>>
        /\ SceneGraph_get(sceneGraph, b).world.rotation = 1

\* the nodes on the parent chain of e, e included
Ancestors(sg, e) == {a \in Ids : Present(sg, a) /\ Within(sg, e, a)}

\* C11: on a hierarchy without cycles getWorldTransform(e) terminates, ending at the root
\* (its own parent, world = local); on return e and all of its ancestors are clean; each node
\* on the chain is recomputed at most once (one invocation per node of the chain at most, a
\* clean node is left as it is), and a repeated call with no mutation in between recomputes
\* nothing.
C11_ChainCleaned ==
    \A e \in Ids :
        Rooted(sceneGraph, e, MaxId + 1) =>
            LET after == getWorldTransform(sceneGraph, e)
            IN  /\ getWorldTransform_calls(sceneGraph, e) <= Cardinality(Ancestors(sceneGraph, e))
                /\ \A a \in Ancestors(sceneGraph, e) : ~SceneGraph_get(after, a).dirty
                /\ SceneGraph_get(sceneGraph, 0).dirty =>
                      SceneGraph_get(after, 0).world = SceneGraph_get(sceneGraph, 0).local
                /\ \A x \in Ids :
                      (/\ Present(sceneGraph, x)
                       /\ \/ ~SceneGraph_get(sceneGraph, x).dirty
                          \/ x \notin Ancestors(sceneGraph, e)) =>
                          SceneGraph_get(after, x) = SceneGraph_get(sceneGraph, x)
                /\ getWorldTransform(after, e) = after
                /\ getWorldTransform_calls(after, e) = 1

\* the world transform of a node two levels below the root has been computed: the node and
\* its ancestors are clean, while the third node, set after that, is dirty
C11_Witness ==
    \E e \in Ids \ {0} :
        /\ Present(sceneGraph, e)
        /\ SceneGraph_get(sceneGraph, e).parent \notin {0, e}
        /\ \A a \in Ancestors(sceneGraph, e) : ~SceneGraph_get(sceneGraph, a).dirty
        /\ SceneGraph_get(sceneGraph, e).world # DefaultTransform
        /\ getWorldTransform_calls(sceneGraph, e) = 1

\* C12: setParent(e, p) changes nothing at all when p is already e's parent; otherwise e is
\* removed from its old parent's child list, appended to p's child list, e.parent becomes p,
\* and e together with all its descendants is dirty afterwards, while the local transforms of
\* all nodes are unchanged.
C12_SetParent ==
    \A e \in Ids \ {0}, p \in Ids :
        (Linked(sceneGraph, e) /\ Present(sceneGraph, p) /\ ~Within(sceneGraph, p, e)) =>
            LET after == SceneGraph_setParent(sceneGraph, e, p)
                old == SceneGraph_get(sceneGraph, e).parent
            IN  IF old = p THEN after = sceneGraph
                ELSE /\ SameExcept(SceneGraph_get(sceneGraph, old).children,
                                   SceneGraph_get(after, old).children, e)
                     /\ SceneGraph_get(after, p).children
                            = Append(SceneGraph_get(sceneGraph, p).children, e)
                     /\ SceneGraph_get(after, e).parent = p
                     /\ \A x \in Subtree(sceneGraph, e) : SceneGraph_get(after, x).dirty
                     /\ \A x \in Ids :
                           Present(sceneGraph, x) =>
                               /\ Present(after, x)
                               /\ SceneGraph_get(after, x).local = SceneGraph_get(sceneGraph, x).local
                               /\ x \notin {old, p, e} =>
                                     [SceneGraph_get(after, x) EXCEPT !.dirty = TRUE]
                                         = [SceneGraph_get(sceneGraph, x) EXCEPT !.dirty = TRUE]

\* setParent has moved a node below a node created after it, once its world transform had
\* been read
C12_Witness ==
    \E e, p \in Ids \ {0} :
        /\ Present(sceneGraph, e)
        /\ Present(sceneGraph, p)
        /\ p > e
        /\ SceneGraph_get(sceneGraph, e).parent = p
        /\ Count(SceneGraph_get(sceneGraph, p).children, e) = 1
        /\ Count(SceneGraph_get(sceneGraph, 0).children, e) = 0
        /\ SceneGraph_get(sceneGraph, e).dirty
        /\ SceneGraph_get(sceneGraph, e).world # DefaultTransform

---------------------------------------------------------------------------
(* Claims about PhysicsWorld::update *)

\* the events of one kind on the trace of the last update, in their order
Events(kind) == SelectSeq(trace, LAMBDA e : e[1] = kind)
\* the unordered pairs of entities the last update passed to the narrow phase
NarrowPairs == {{e[2], e[3]} : e \in Range(Events("narrow"))}
\* the bounding box the last update stored for a collider it swept
Box(index) == ComponentManager_get(colliders, index)
\* the intervals [lo0, hi0] and [lo1, hi1] share a point; share more than a point
Meet(lo0, hi0, lo1, hi1) == hi0 >= lo1 /\ hi1 >= lo0
Cross(lo0, hi0, lo1, hi1) == hi0 > lo1 /\ hi1 > lo0
\* the all-pairs tests over the colliders of the last update: closed intervals on both axes,
\* and closed on y with more than a point shared on x
BruteForceClosed ==
    {{a, b} : <<a, b>> \in
        {q \in Range(sortIndices) \X Range(sortIndices) :
            /\ q[1] # q[2]
            /\ Meet(Box(q[1]).aabbMin[1], Box(q[1]).aabbMax[1],
                    Box(q[2]).aabbMin[1], Box(q[2]).aabbMax[1])
            /\ Meet(Box(q[1]).aabbMin[2], Box(q[1]).aabbMax[2],
                    Box(q[2]).aabbMin[2], Box(q[2]).aabbMax[2])}}
BruteForceCrossing ==
    {{a, b} : <<a, b>> \in
        {q \in Range(sortIndices) \X Range(sortIndices) :
            /\ q[1] # q[2]
            /\ Cross(Box(q[1]).aabbMin[1], Box(q[1]).aabbMax[1],
                     Box(q[2]).aabbMin[1], Box(q[2]).aabbMax[1])
            /\ Meet(Box(q[1]).aabbMin[2], Box(q[1]).aabbMax[2],
                    Box(q[2]).aabbMin[2], Box(q[2]).aabbMax[2])}}

\* C13 as stated: the pairs the sweep passes to the narrow phase are the pairs whose
\* bounding boxes overlap as closed intervals on x and on y.
C13_AsStated == updates > 0 => NarrowPairs = BruteForceClosed

\* C13, amended: for colliders of positive size the pairs the sweep passes to the narrow
\* phase are the pairs whose bounding boxes overlap as closed intervals on y and share more
\* than a point on x; equal min-x values included.
C13_SweepIsBruteForce == updates > 0 => NarrowPairs = BruteForceCrossing

\* an update over three colliders, two of them with equal min-x, in which one pair only
\* touches on x and another pair is passed to the narrow phase
C13_Witness ==
    /\ updates > 0
    /\ Len(sortIndices) >= 3
    /\ \E a, b \in Range(sortIndices) : a # b /\ Box(a).aabbMin[1] = Box(b).aabbMin[1]
    /\ BruteForceClosed # BruteForceCrossing
    /\ NarrowPairs # {}

\* the records the last update had to emit: the results of its calls of collideBoxes that
\* have a negative depth, with the pair they were called for, in the order of the calls
Detected ==
    LET hits == SelectSeq(Events("narrow"), LAMBDA e : e[4].depth < 0)
    IN  [k \in 1..Len(hits) |-> [hits[k][4] EXCEPT !.index0 = hits[k][2], !.index1 = hits[k][3]]]

\* C14: after update returns, the collision records are exactly the pairs detected during
\* that step, every record has depth < 0, and no record of an earlier step remains.
C14_Records ==
    updates > 0
        => /\ collisionRecords = Detected
           /\ \A k \in 1..Len(collisionRecords) : collisionRecords[k].depth < 0

\* a second update that leaves no record, after a step whose record made the resolution
\* push a character off the position it was created at
C14_Witness ==
    /\ updates = 2
    /\ collisionRecords = <<>>
    /\ \E e \in Range(ComponentManager_indices(dynamics)) :
          /\ ComponentManager_get(dynamics, e).mass # 0
          /\ SceneGraph_getLocalTransform(sceneGraph, e).position \notin CharacterPositions

\* the invocation the k-th record owes to active, and how often the last update made it
Invocation(k, active, other) ==
    <<"callback", Box(active).callback, active, other, k, Box(active).callbackData>>
Invocations(k, active, other) == Count(trace, Invocation(k, active, other))

\* C15: for every collision record and each of its two entities taken as the active one,
\* the callback of the active entity's collider, if there is one, is invoked exactly once
\* with (active, other, record, callbackData), and not at all if there is none; no other
\* invocation is made.
C15_Callbacks ==
    updates > 0
        => /\ \A k \in 1..Len(collisionRecords) :
                 LET index0 == collisionRecords[k].index0
                     index1 == collisionRecords[k].index1
                 IN  /\ Invocations(k, index0, index1)
                            = IF Box(index0).callback # 0 THEN 1 ELSE 0
                     /\ Invocations(k, index1, index0)
                            = IF Box(index1).callback # 0 THEN 1 ELSE 0
           /\ \A e \in Range(Events("callback")) :
                 /\ e[5] \in 1..Len(collisionRecords)
                 /\ <<e[3], e[4]>> \in
                        {<<collisionRecords[e[5]].index0, collisionRecords[e[5]].index1>>,
                         <<collisionRecords[e[5]].index1, collisionRecords[e[5]].index0>>}
                 /\ e = Invocation(e[5], e[3], e[4])

\* an update with a record that got two invocations and a record that got one
C15_Witness ==
    /\ updates > 0
    /\ \E k \in 1..Len(collisionRecords) :
          /\ Invocations(k, collisionRecords[k].index0, collisionRecords[k].index1) = 1
          /\ Invocations(k, collisionRecords[k].index1, collisionRecords[k].index0) = 1
    /\ \E k \in 1..Len(collisionRecords) :
          Invocations(k, collisionRecords[k].index0, collisionRecords[k].index1)
              + Invocations(k, collisionRecords[k].index1, collisionRecords[k].index0) = 1

\* the stage of update an event of the trace belongs to, and the record it is about
Stage(e) ==
    CASE e[1] = "integrate" -> 1 [] e[1] = "aabb" -> 2 [] e[1] = "narrow" -> 3 [] OTHER -> 4
RecordOf(e) == IF e[1] = "resolve" THEN e[2] ELSE e[5]

\* the last update integrated every dynamic body, refreshed every collider and resolved
\* every record, once each
EveryoneServed ==
    /\ \A index \in Range(sortIndices) :
          /\ Count(trace, <<"aabb", index>>) = 1
          /\ Count(trace, <<"integrate", index>>)
                 = IF ComponentManager_has(dynamics, index) THEN 1 ELSE 0
    /\ Len(Events("aabb")) = Len(sortIndices)
    /\ \A k \in 1..Len(collisionRecords) :
          Cardinality({i \in 1..Len(trace) : trace[i][1] = "resolve" /\ trace[i][2] = k}) = 1
    /\ Len(Events("resolve")) = Len(collisionRecords)

\* C19 as stated: update runs integration, AABB refresh, detection, resolution of every
\* record and callback dispatch for every record strictly in this order: every record has
\* been resolved before the first callback is invoked.
C19_AsStated ==
    updates > 0
        => /\ EveryoneServed
           /\ \A i, j \in 1..Len(trace) :
                 i < j => /\ Stage(trace[i]) <= Stage(trace[j])
                          /\ ~(trace[i][1] = "callback" /\ trace[j][1] = "resolve")

\* C19, amended: update runs integration of every dynamic body, then AABB refresh of every
\* collider, then detection of every pair, and then takes the records in their order, for
\* each one its resolution followed by its callbacks: a record is resolved before its own
\* callbacks and after the callbacks of the records before it.
C19_Stages ==
    updates > 0
        => /\ EveryoneServed
           /\ \A i, j \in 1..Len(trace) :
                 i < j => /\ Stage(trace[i]) <= Stage(trace[j])
                          /\ (Stage(trace[i]) = 4 /\ Stage(trace[j]) = 4)
                                 => /\ RecordOf(trace[i]) <= RecordOf(trace[j])
                                    /\ RecordOf(trace[i]) = RecordOf(trace[j])
                                           => trace[j][1] = "callback"

\* an update in which a callback was invoked for one record before a later record, both of
\* whose entities have a dynamic body, was resolved
C19_Witness ==
    /\ updates > 0
    /\ \E i, j \in 1..Len(trace) :
          /\ i < j
          /\ trace[i][1] = "callback"
          /\ trace[j][1] = "resolve"
          /\ Len(trace[j]) = 4
          /\ trace[j][3] # trace[j][4]

\* the events of the last update that resolved a record between a static and a non-static
\* body, and between two non-static bodies
StaticResolutions ==
    SelectSeq(Events("resolve"),
              LAMBDA e : Len(e) = 4 /\ ((e[3].mass0 = 0) # (e[3].mass1 = 0)))
DynamicResolutions ==
    SelectSeq(Events("resolve"), LAMBDA e : Len(e) = 4 /\ e[3].mass0 # 0 /\ e[3].mass1 # 0)
\* the axis turned by a quarter: the tangent
Tangent(axis) == <<-axis[2], axis[1]>>

ImpulseApplied(e) ==
    LET record == collisionRecords[e[2]]
        before == e[3]
        after == e[4]
        dv0 == Vsub(after.velocity0, before.velocity0)
        dv1 == Vsub(after.velocity1, before.velocity1)
        impulse == Vscale(10 * record.depth, record.axis)
    IN  /\ Vscale(before.mass0, dv0) = impulse
        /\ Vscale(before.mass1, dv1) = Vneg(impulse)
        /\ Vadd(Vscale(before.mass0, dv0), Vscale(before.mass1, dv1)) = <<0, 0>>
        /\ before.mass0 = before.mass1 => dv0 = Vneg(dv1)
        /\ after.position0 = before.position0
        /\ after.position1 = before.position1

\* each body's change of velocity points away from the other body
PushedApart(e) ==
    /\ Dot(Vsub(e[4].velocity0, e[3].velocity0), Vsub(e[3].position0, e[3].position1)) >= 0
    /\ Dot(Vsub(e[4].velocity1, e[3].velocity1), Vsub(e[3].position1, e[3].position0)) >= 0

\* C18: when both bodies of a record are non-static, resolution changes velocities only:
\* body0's by +10 * depth * axis / mass0 and body1's by -10 * depth * axis / mass1, so that
\* mass0 * dv0 + mass1 * dv1 = 0, each change points away from the other body, and with
\* equal masses the changes are equal and opposite; the positions are unchanged.
C18_DynamicResolution ==
    \A e \in Range(DynamicResolutions) : ImpulseApplied(e) /\ PushedApart(e)

---------------------------------------------------------------------------
(* Claims about collideBoxes *)

\* C16: a result of collideBoxes that update emits as a record (depth < 0) has an axis that
\* points from the first box toward the second: the dot product of the axis with
\* (position of box 1 - position of box 0) is >= 0, whichever of the four axes was chosen.
C16_AxisTowardSecond ==
    (boxes # <<>> /\ boxes.result.depth < 0)
        => Dot(boxes.result.axis, Vsub(boxes.p1, boxes.p0)) >= 0

\* an overlap whose axis is an axis of box 1 and of neither sign an axis of box 0
C16_Witness ==
    /\ boxes # <<>>
    /\ boxes.result.depth < 0
    /\ boxes.result.axis \in {boxes.r1[1], boxes.r1[2]}
    /\ boxes.result.axis \notin
           {boxes.r0[1], boxes.r0[2], Vneg(boxes.r0[1]), Vneg(boxes.r0[2])}
    /\ Dot(boxes.result.axis, Vsub(boxes.p1, boxes.p0)) > 0

\* the depths of the two axes of box 0 when neither box is rotated, in the caller's unit
UnrotatedX == Abs(boxes.p1[1] - boxes.p0[1]) - boxes.e0[1] - boxes.e1[1]
UnrotatedY == Abs(boxes.p1[2] - boxes.p0[2]) - boxes.e0[2] - boxes.e1[2]

\* C20: for two boxes with rotation 0 collideBoxes returns the larger of
\* |dx| - e0.x - e1.x and |dy| - e0.y - e1.y, unless the x value is > 0, and then it returns
\* the x value on the x axis.  In tenths: half extents (5, 5), centres (0, 0) and (9, 0) give
\* depth -1 on the x axis; centres (0, 0) and (11, 0) give a depth > 0, which update does not
\* emit.
C20_Unrotated ==
    (boxes # <<>> /\ boxes.r0 = rotationMat2(0) /\ boxes.r1 = rotationMat2(0))
        => /\ UnrotatedX > 0
                => boxes.result = [depth |-> 25 * UnrotatedX,
                                   axis |-> IF boxes.p1[1] < boxes.p0[1]
                                            THEN <<-5, 0>> ELSE <<5, 0>>]
           /\ UnrotatedX <= 0
                => boxes.result.depth =
                       25 * (IF UnrotatedY > UnrotatedX THEN UnrotatedY ELSE UnrotatedX)
           /\ (boxes.e0 = <<5, 5>> /\ boxes.e1 = <<5, 5>> /\ boxes.p1 = <<9, 0>>)
                => boxes.result = [depth |-> -25, axis |-> <<5, 0>>]
           /\ (boxes.e0 = <<5, 5>> /\ boxes.e1 = <<5, 5>> /\ boxes.p1 = <<11, 0>>)
                => boxes.result.depth > 0

\* unrotated boxes apart on x and farther apart on y: the x value is returned
C20_Witness ==
    /\ boxes # <<>>
    /\ boxes.r0 = rotationMat2(0)
    /\ boxes.r1 = rotationMat2(0)
    /\ UnrotatedX > 0
    /\ UnrotatedY > UnrotatedX
    /\ boxes.result.depth = 25 * UnrotatedX

\* the four tests of collideBoxes in the order of the code, box 0's x and y axes and then
\* box 1's x and y axes: the depth along the axis, in 25ths, and the axis as the code would
\* return it, in fifths
BoxTests ==
    LET r0t == Transpose(boxes.r0)
        r1t == Transpose(boxes.r1)
        d == Vsub(boxes.p1, boxes.p0)
        d0 == MatVec(r0t, d)
        d1 == MatVec(r1t, d)
        r1to0 == MatMul(r0t, boxes.r1)
        r0to1 == MatMul(r1t, boxes.r0)
        e10 == MatVec(<<Vabs(r1to0[1]), Vabs(r1to0[2])>>, boxes.e1)
        e01 == MatVec(<<Vabs(r0to1[1]), Vabs(r0to1[2])>>, boxes.e0)
    IN  <<[depth |-> 5 * Abs(d0[1]) - 25 * boxes.e0[1] - e10[1],
           axis |-> IF d0[1] < 0 THEN Vneg(boxes.r0[1]) ELSE boxes.r0[1]],
          [depth |-> 5 * Abs(d0[2]) - 25 * boxes.e0[2] - e10[2],
           axis |-> IF d0[2] < 0 THEN Vneg(boxes.r0[2]) ELSE boxes.r0[2]],
          [depth |-> 5 * Abs(d1[1]) - 25 * boxes.e1[1] - e01[1],
           axis |-> IF d1[1] > 0 THEN boxes.r1[1] ELSE Vneg(boxes.r1[1])],
          [depth |-> 5 * Abs(d1[2]) - 25 * boxes.e1[2] - e01[2],
           axis |-> IF d1[2] > 0 THEN boxes.r1[2] ELSE Vneg(boxes.r1[2])]>>

\* the number of tests made: testing stops at the first of the first three axes whose depth
\* is > 0
BoxTested ==
    IF \E k \in 1..3 : BoxTests[k].depth > 0
    THEN CHOOSE k \in 1..3 : BoxTests[k].depth > 0 /\ \A j \in 1..(k - 1) : BoxTests[j].depth <= 0
    ELSE 4

\* the tests among the first n that share the maximum depth of the first n
BoxDeepest(n) == {k \in 1..n : \A j \in 1..n : BoxTests[j].depth <= BoxTests[k].depth}

\* the first of them
BoxFirstDeepest(n) == CHOOSE k \in BoxDeepest(n) : \A j \in BoxDeepest(n) : k <= j

\* C21 as stated: collideBoxes tests the axes in the order A.x, A.y, B.x, B.y and replaces
\* the result only on a strictly greater depth, so when several of the four axes share the
\* maximum depth the returned axis is the first of them in that order.
C21_AsStated ==
    (boxes # <<>> /\ Cardinality(BoxDeepest(4)) > 1)
        => boxes.result = BoxTests[BoxFirstDeepest(4)]

\* C21: collideBoxes tests the axes in the order A.x, A.y, B.x, B.y, stops after the first
\* of A.x, A.y, B.x whose depth is > 0, and replaces the result only on a strictly greater
\* depth: the result is the first of the tested axes that has the maximum depth of the
\* tested axes, in particular when several of them share it.
C21_FirstOfTied ==
    boxes # <<>> => boxes.result = BoxTests[BoxFirstDeepest(BoxTested)]

\* an overlap in which an axis of box 0 and a different axis of box 1 share the maximum
\* depth, and the axis of box 0 is returned
C21_Witness ==
    /\ boxes # <<>>
    /\ boxes.result.depth < 0
    /\ BoxTested = 4
    /\ \E k \in BoxDeepest(4) \cap {3, 4} :
           BoxTests[k].axis # BoxTests[BoxFirstDeepest(4)].axis
    /\ BoxFirstDeepest(4) \in {1, 2}
    /\ boxes.result.axis = BoxTests[BoxFirstDeepest(4)].axis

---------------------------------------------------------------------------
(* Claims about the records update does not resolve *)

\* the events of the last update for the records of two static bodies, and for the records
\* with an entity that has no dynamic body
BothStaticResolutions ==
    SelectSeq(Events("resolve"), LAMBDA e : Len(e) = 4 /\ e[3].mass0 = 0 /\ e[3].mass1 = 0)
BodilessResolutions == SelectSeq(Events("resolve"), LAMBDA e : Len(e) = 3)

\* the callbacks of the k-th record were dispatched: one invocation for each of its two
\* entities whose collider has a callback
Dispatched(k) ==
    LET index0 == collisionRecords[k].index0
        index1 == collisionRecords[k].index1
    IN  /\ Invocations(k, index0, index1) = IF Box(index0).callback # 0 THEN 1 ELSE 0
        /\ Invocations(k, index1, index0) = IF Box(index1).callback # 0 THEN 1 ELSE 0

\* C22: resolution changes no position and no velocity for a record whose two bodies are
\* both static, nor for a record in which at least one entity has no Dynamic component; the
\* callbacks for such a record are still dispatched.
C22_Unresolved ==
    updates > 0
        => /\ \A e \in Range(BothStaticResolutions) : e[3] = e[4] /\ Dispatched(e[2])
           /\ \A e \in Range(BodilessResolutions) :
                 /\ ~(ComponentManager_has(dynamics, collisionRecords[e[2]].index0)
                          /\ ComponentManager_has(dynamics, collisionRecords[e[2]].index1))
                 /\ e[3].before = e[3].after
                 /\ Dispatched(e[2])
           /\ \A k \in 1..Len(collisionRecords) :
                 (\/ ~ComponentManager_has(dynamics, collisionRecords[k].index0)
                  \/ ~ComponentManager_has(dynamics, collisionRecords[k].index1))
                     => \E e \in Range(BodilessResolutions) : e[2] = k

\* an update with a record of two overlapping static bodies, and a record of a trigger and
\* a static body for which the trigger's callback was invoked
C22_Witness ==
    /\ updates > 0
    /\ BothStaticResolutions # <<>>
    /\ \E e \in Range(BodilessResolutions) :
          /\ ComponentManager_has(dynamics, collisionRecords[e[2]].index0)
                 # ComponentManager_has(dynamics, collisionRecords[e[2]].index1)
          /\ \E c \in Range(Events("callback")) : c[5] = e[2]

---------------------------------------------------------------------------
(* Claims about the integration *)

\* the entities whose position or velocity the resolution of a record can write
Resolvable(records, bodyStore) ==
    UNION {{records[k].index0, records[k].index1} : k \in
              {j \in 1..Len(records) :
                  /\ ComponentManager_has(bodyStore, records[j].index0)
                  /\ ComponentManager_has(bodyStore, records[j].index1)
                  /\ \/ ComponentManager_get(bodyStore, records[j].index0).mass # 0
                     \/ ComponentManager_get(bodyStore, records[j].index1).mass # 0}}

RECURSIVE PositionFromRoot(_, _)
\* the world position of a node of an unrotated hierarchy, from the local positions
PositionFromRoot(sg, index) ==
    IF SceneGraph_get(sg, index).parent = index
    THEN SceneGraph_get(sg, index).local.position
    ELSE Vadd(PositionFromRoot(sg, SceneGraph_get(sg, index).parent),
              SceneGraph_get(sg, index).local.position)

\* C23: the integration stage of update(dt) visits every entity that has a Dynamic
\* component exactly once, whatever its mass, sets its local position to the old local
\* position plus velocity * dt with the velocity from before the damping, marks its subtree
\* dirty (the bounding boxes update computes next are those of the new positions), and then
\* sets the velocity to velocity - damping * velocity * dt; entities without a Dynamic
\* component are not moved.  Stated for the bodies the resolution of the same step does not
\* write, and the bounding boxes for the steps in which it writes none.
C23_Integration ==
    [][updates' # updates =>
         \A dt \in Steps :
             LET indices == Range(ComponentManager_indices(dynamics))
                 written == Resolvable(collisionRecords', dynamics)
             IN  /\ \A index \in indices : Count(trace', <<"integrate", index>>) = 1
                 /\ Cardinality({k \in 1..Len(trace') : trace'[k][1] = "integrate"})
                        = Cardinality(indices)
                 /\ \A index \in indices \ written :
                        LET body == ComponentManager_get(dynamics, index)
                        IN  /\ SceneGraph_getLocalTransform(sceneGraph', index).position
                                   = Vadd(SceneGraph_getLocalTransform(sceneGraph, index).position,
                                          Vscale(dt, body.velocity))
                            /\ Vscale(10, ComponentManager_get(dynamics', index).velocity)
                                   = Vsub(Vscale(10, body.velocity),
                                          Vscale(body.damping * dt, body.velocity))
                 /\ \A index \in Range(ComponentManager_indices(sceneGraph)) \ indices :
                        SceneGraph_getLocalTransform(sceneGraph', index)
                            = SceneGraph_getLocalTransform(sceneGraph, index)
                 /\ written = {} =>
                        \A index \in Range(ComponentManager_indices(colliders)) :
                            LET collider == ComponentManager_get(colliders', index)
                                position == PositionFromRoot(sceneGraph', index)
                            IN  /\ collider.aabbMin = Vsub(position, collider.halfExtents)
                                /\ collider.aabbMax = Vadd(position, collider.halfExtents)
    ]_vars

\* after a second update: a character that the step has moved by its velocity and slowed
\* down, below it a trigger whose bounding box the first update had computed and the second
\* has moved along, and a static body that was integrated as well
C23_Witness ==
    /\ updates = 2
    /\ Resolvable(collisionRecords, dynamics) = {}
    /\ \E e, x \in Range(ComponentManager_indices(colliders)) :
          /\ ComponentManager_has(dynamics, e)
          /\ ComponentManager_get(dynamics, e).mass # 0
          /\ ComponentManager_get(dynamics, e).velocity = <<-1, 1>>
          /\ SceneGraph_get(sceneGraph, x).parent = e
          /\ SceneGraph_getLocalTransform(sceneGraph, e).position = <<0, 10>>
          /\ Box(x).aabbMin = Vsub(PositionFromRoot(sceneGraph, x), HalfExtents)
    /\ \E b \in Range(ComponentManager_indices(dynamics)) :
          /\ ComponentManager_get(dynamics, b).mass = 0
          /\ Count(trace, <<"integrate", b>>) = 1

---------------------------------------------------------------------------
(* Claims about the depth of the world transform *)

\* local.position.y - heightForDepth of a node
HeightAboveDepth(node) == node.local.position[2] - node.heightForDepth

\* C24: for a node whose parent is the root (identifier 0), the world depth computed by
\* getWorldTransform is parent depth + local depth - (local.position.y - heightForDepth);
\* for a node with any other parent no such adjustment is applied; for the root itself (its
\* own parent) the world transform equals its local transform.  Stated of the world
\* transforms getWorldTransform has stored.
C24_DepthBelowRoot ==
    \A e \in Ids :
        (Present(sceneGraph, e) /\ ~SceneGraph_get(sceneGraph, e).dirty) =>
            LET node == SceneGraph_get(sceneGraph, e)
                parentTransform == SceneGraph_get(sceneGraph, node.parent).world
            IN  /\ node.parent = e => node.world = node.local
                /\ (node.parent # e /\ node.parent = 0) =>
                       node.world.depth = (parentTransform.depth + node.local.depth)
                                              - HeightAboveDepth(node)
                /\ (node.parent # e /\ node.parent # 0) =>
                       node.world.depth = parentTransform.depth + node.local.depth

\* the world transforms of the root, of a node below the root and of a node below that one
\* have been computed, both nodes with a position above their height for depth: the depth
\* of the first is adjusted, the depth of the second is not
C24_Witness ==
    \E a, b \in Ids \ {0} :
        /\ Present(sceneGraph, a)
        /\ Present(sceneGraph, b)
        /\ SceneGraph_get(sceneGraph, a).parent = 0
        /\ SceneGraph_get(sceneGraph, b).parent = a
        /\ ~SceneGraph_get(sceneGraph, 0).dirty
        /\ ~SceneGraph_get(sceneGraph, a).dirty
        /\ ~SceneGraph_get(sceneGraph, b).dirty
        /\ HeightAboveDepth(SceneGraph_get(sceneGraph, a)) # 0
        /\ HeightAboveDepth(SceneGraph_get(sceneGraph, b)) # 0
        /\ SceneGraph_get(sceneGraph, a).world.depth
               = SceneGraph_get(sceneGraph, a).local.depth
                     - HeightAboveDepth(SceneGraph_get(sceneGraph, a))
        /\ SceneGraph_get(sceneGraph, b).world.depth
               = SceneGraph_get(sceneGraph, a).world.depth
                     + SceneGraph_get(sceneGraph, b).local.depth

---------------------------------------------------------------------------
(* Claims about SceneGraph::recurse *)

\* the place of x among the visits
VisitOf(visits, x) == CHOOSE k \in 1..Len(visits) : visits[k] = x

\* the call recurse(e, fn) has returned, having invoked fn exactly once on each node of the
\* subtree rooted at e, every child before its parent, and it returned fn's result on e
RecurseAsClaimed(sg, e, outcome) ==
    /\ ~outcome.overflow
    /\ Range(outcome.visits) = Subtree(sg, e)
    /\ \A x \in Subtree(sg, e) : Count(outcome.visits, x) = 1
    /\ \A x \in Subtree(sg, e) \ {e} :
          /\ SceneGraph_get(sg, x).parent \in Subtree(sg, e)
          /\ VisitOf(outcome.visits, x) < VisitOf(outcome.visits, SceneGraph_get(sg, x).parent)
    /\ outcome.result = e

\* C25: for every live scene-graph node e, including the root node 0, recurse(e, fn)
\* terminates, invokes fn exactly once on each node of the subtree rooted at e with every
\* child visited before its parent, and returns the result of the invocation on e.
C25_Recurse ==
    [][(call' # call /\ call'[1] = "SceneGraph::recurse")
           => RecurseAsClaimed(sceneGraph, call'[2], call'[3])]_vars

\* the same for the nodes other than the root
C25_BelowRoot ==
    [][(call' # call /\ call'[1] = "SceneGraph::recurse" /\ call'[2] # 0)
           => RecurseAsClaimed(sceneGraph, call'[2], call'[3])]_vars

---------------------------------------------------------------------------
(* Claims about SceneGraph::destroy *)

\* e has a node, the node that e.parent names is another node, and it does not list e
Unlisted(sg, e) ==
    /\ Present(sg, e)
    /\ SceneGraph_get(sg, e).parent # e
    /\ Present(sg, SceneGraph_get(sg, e).parent)
    /\ Count(SceneGraph_get(sg, SceneGraph_get(sg, e).parent).children, e) = 0

\* C26: when SceneGraph::destroy(e) does not find e in the child list of the node named by
\* e.parent, the parent's child list is left unchanged, e's node is still removed from the
\* store, and no other node is modified.
C26_DestroyUnlisted ==
    [][\A e \in live \ live' :
           Unlisted(sceneGraph, e) =>
               /\ ~ComponentManager_has(sceneGraph', e)
               /\ Range(ComponentManager_indices(sceneGraph'))
                      = Range(ComponentManager_indices(sceneGraph)) \ {e}
               /\ Len(ComponentManager_indices(sceneGraph'))
                      = Len(ComponentManager_indices(sceneGraph)) - 1
               /\ \A x \in Range(ComponentManager_indices(sceneGraph)) \ {e} :
                      /\ Present(sceneGraph', x)
                      /\ SceneGraph_get(sceneGraph', x) = SceneGraph_get(sceneGraph, x)
      ]_vars

\* a node was destroyed while its children were alive, its identifier was given a new node,
\* and the old child, which the new node did not list, has been destroyed since: every node
\* that is left is listed by its parent again
C26_Witness ==
    /\ misuse
    /\ call[1] = "EntityManager::destroy"
    /\ call[2] \notin live
    /\ ~ComponentManager_has(sceneGraph, call[2])
    /\ \E p \in Ids \ {0} : Present(sceneGraph, p)
    /\ \A x \in Ids \ {0} :
          Present(sceneGraph, x) =>
              /\ Linked(sceneGraph, x)
              /\ ~Unlisted(sceneGraph, x)

---------------------------------------------------------------------------
(* Claims about the identifiers that are in use *)

\* the free list contains no live identifier, and no identifier twice
FreeListSound ==
    /\ \A k \in 1..Len(freeIndices) : freeIndices[k] \notin live
    /\ \A j, k \in 1..Len(freeIndices) : freeIndices[j] = freeIndices[k] => j = k

\* C28: provided EntityManager::destroy is only called on identifiers that are currently
\* live (returned by create and not destroyed since), EntityManager::create never returns
\* an identifier that is currently live, and the free list never contains a live identifier
\* nor the same identifier twice.
C28_LiveIdentifiers ==
    [][~misuse' =>
          /\ FreeListSound'
          /\ \A r \in Ids :
                (call' # call /\ call' = <<"EntityManager::create", r, <<>>>>) => r \notin live
      ]_vars

\* create has handed out an identifier from a free list of two, after destroy calls on live
\* identifiers only: the other identifier is still in the list
C28_Witness ==
    /\ ~misuse
    /\ call[1] = "EntityManager::create"
    /\ call[2] \in live
    /\ call[2] < nextIndex - 1
    /\ freeIndices # <<>>
    /\ FreeListSound

---------------------------------------------------------------------------
(* Claims about the pairs of the collision records *)

\* the place of a collider in the order std::sort left
SortPlace(index) == CHOOSE k \in 1..Len(sortIndices) : sortIndices[k] = index

\* C29: within one update step each unordered pair of distinct colliders produces at most
\* one collision record and no record pairs an entity with itself, also when several
\* colliders have the same AABB min-X; in every record index1 is a collider that precedes
\* index0 in the min-X sort order.
C29_RecordPairs ==
    updates > 0
        => /\ \A k \in 1..Len(collisionRecords) :
                 /\ collisionRecords[k].index0 # collisionRecords[k].index1
                 /\ collisionRecords[k].index0 \in Range(sortIndices)
                 /\ collisionRecords[k].index1 \in Range(sortIndices)
                 /\ SortPlace(collisionRecords[k].index1) < SortPlace(collisionRecords[k].index0)
                 /\ Box(collisionRecords[k].index1).aabbMin[1]
                        <= Box(collisionRecords[k].index0).aabbMin[1]
           /\ \A j, k \in 1..Len(collisionRecords) :
                 {collisionRecords[j].index0, collisionRecords[j].index1}
                     = {collisionRecords[k].index0, collisionRecords[k].index1} => j = k
           /\ \A index \in Range(sortIndices) : Count(sortIndices, index) = 1

\* an update over three colliders with the same min-X, all three pairs of which have a
\* record
C29_Witness ==
    /\ updates > 0
    /\ Len(sortIndices) = 3
    /\ \A a, b \in Range(sortIndices) : Box(a).aabbMin[1] = Box(b).aabbMin[1]
    /\ Len(collisionRecords) = 3

---------------------------------------------------------------------------
(* Claims about what update leaves alone *)

\* a store with the fields update may write blanked out
NodesButMoved(sg) ==
    [sg EXCEPT !.components =
        [k \in 1..Len(sg.components) |->
            [sg.components[k] EXCEPT !.local.position = <<0, 0>>,
                                     !.world = DefaultTransform,
                                     !.dirty = FALSE]]]
CollidersButBoxes(m) ==
    [m EXCEPT !.components =
        [k \in 1..Len(m.components) |->
            [m.components[k] EXCEPT !.aabbMin = <<0, 0>>, !.aabbMax = <<0, 0>>]]]
BodiesButVelocity(m) ==
    [m EXCEPT !.components =
        [k \in 1..Len(m.components) |-> [m.components[k] EXCEPT !.velocity = <<0, 0>>]]]

\* C30: with callbacks that do not touch the stores, PhysicsWorld::update never changes
\* which entities have Collider, Dynamic or scene-graph components, nor any parent/child
\* link, halfExtents, mass, damping, rotation or depth; in the stores it changes only local
\* positions, velocities, collider AABBs and the cached world transforms with their dirty
\* flags, and of the entity manager nothing.
C30_UpdateFrame ==
    [][updates' # updates =>
          /\ NodesButMoved(sceneGraph') = NodesButMoved(sceneGraph)
          /\ CollidersButBoxes(colliders') = CollidersButBoxes(colliders)
          /\ BodiesButVelocity(dynamics') = BodiesButVelocity(dynamics)
          /\ <<freeIndices', nextIndex', live'>> = <<freeIndices, nextIndex, live>>
      ]_vars

\* C30 as stated: besides those fields update changes only its record list, so the sort
\* order and the intervals it keeps between two updates are as they were
C30_AsStated ==
    [][updates' # updates =>
          /\ NodesButMoved(sceneGraph') = NodesButMoved(sceneGraph)
          /\ CollidersButBoxes(colliders') = CollidersButBoxes(colliders)
          /\ BodiesButVelocity(dynamics') = BodiesButVelocity(dynamics)
          /\ <<freeIndices', nextIndex', live'>> = <<freeIndices, nextIndex, live>>
          /\ <<sortIndices', intervals'>> = <<sortIndices, intervals>>
      ]_vars

\* after an update that moved a body, resolved a record by writing a position or a
\* velocity, and left a body with a velocity
C30_Witness ==
    /\ updates > 0
    /\ \E e \in Range(Events("resolve")) : Len(e) = 4 /\ e[3] # e[4]
    /\ \E e \in Range(Events("callback")) : TRUE
    /\ \E index \in Range(ComponentManager_indices(dynamics)) :
          /\ ComponentManager_get(dynamics, index).velocity # <<0, 0>>
          /\ SceneGraph_getLocalTransform(sceneGraph, index).position \notin MoverPositions

---------------------------------------------------------------------------
(* Claims about the collision callbacks of the game *)

RECURSIVE Under(_, _, _, _)
\* x is e or below it, by at most n parent links
Under(sg, x, e, n) ==
    x = e \/ (n > 0 /\ x # 0 /\ Under(sg, SceneGraph_get(sg, x).parent, e, n - 1))

\* the entities whose health is used up, and all that hangs below them
Dead == {index \in Range(ComponentManager_indices(game.healthComponents)) :
            ComponentManager_get(game.healthComponents, index).value <= 0}
DeadHierarchies ==
    {x \in live : Present(sceneGraph, x)
                    /\ \E index \in Dead : Under(sceneGraph, x, index, nextIndex)}

\* C27: onWeaponCollision, onTriggerCollision and the trigger condition never create or
\* destroy an entity or a Collider, Dynamic or scene-graph component: in one
\* physicsWorld.update, whenever a callback returns, the same entities have a node, a
\* collider and a dynamic body as when the update began, and no entity is created or
\* destroyed by the update.  An entity whose health is used up is destroyed by updateHealth
\* and by nothing before it, and not before its loop over the health components has ended:
\* when that loop ends the stores are laid out as before, and what updateHealth then
\* destroys are these entities with all that hangs below them.
C27_CallbacksKeepStores ==
    [][/\ updates' # updates =>
              /\ \A k \in 1..Len(game'.seen) : game'.seen[k] = layout(Physics)
              /\ <<freeIndices', nextIndex', live'>> = <<freeIndices, nextIndex, live>>
       /\ (game'.frames.updateHealth # game.frames.updateHealth /\ ~crashed') =>
              /\ game'.looped = layout(TheGame)
              /\ game'.died = <<>> <=> Dead = {}
              /\ Range(game'.died) = Dead
              /\ live \ live' = DeadHierarchies
       /\ game'.frames.updateHealth = game.frames.updateHealth => live \subseteq live'
      ]_vars

\* updateHealth has destroyed a zombie with its health bar, its hurtbox and its weapon,
\* whose health a sharp weapon used up in the update before, an update that also told a
\* trigger of the player
C27_Witness ==
    /\ ~crashed
    /\ call[1] = "TheGame::updateHealth"
    /\ Len(call[3]) = 4
    /\ Len(game.died) = 1
    /\ game.looped # layout(TheGame)
    /\ \E e \in Range(Events("callback")) :
          /\ e[2] = weaponCollisionCallback
          /\ ComponentManager_has(game.weapons, e[3])
          /\ ComponentManager_get(game.weapons, e[3]).sharp
          /\ ~ComponentManager_has(sceneGraph, e[4])
    /\ \E e \in Range(Events("callback")) :
          /\ e[2] = triggerCollisionCallback
          /\ ComponentManager_get(game.triggers, e[3]).active
    /\ Len(game.seen) > 2

===========================================================================
